---- MODULE Spec2Model ----
(***************************************************************************)
(* Bulk-upload pipeline of the tax-qualification intranet:                 *)
(*   fileProcessingService  (rowToTaxQualification, processCSVFile)        *)
(*   taxValidationService   (sanitizeData, validateTaxQualification, ...)  *)
(*   firestoreService       (generateQualificationId, processBulkUpload)   *)
(*                                                                         *)
(* Strings are sequences of one-character strings, so that toLowerCase,    *)
(* trim and the regular-expression replacements act on characters.         *)
(* Numbers are exact decimals counted in tenths (0.5 is 5, 1.5 is 15);     *)
(* every numeric cell of the model carries at most one fractional digit.   *)
(* A JavaScript value is [t, n, s]: t its type tag ("num", "nan", "str",   *)
(* "undef", "null", "bool"), n its number (tenths), s its characters.      *)
(* A message is the sequence of the parts of its template, written without *)
(* accents.                                                                *)
(***************************************************************************)
EXTENDS Integers, Sequences, FiniteSets

\* ------------------------------------------------------------ characters

UpperChars == <<"A","B","C","D","E","F","G","H","I","J","K","L","M",
                "N","O","P","Q","R","S","T","U","V","W","X","Y","Z">>
LowerChars == <<"a","b","c","d","e","f","g","h","i","j","k","l","m",
                "n","o","p","q","r","s","t","u","v","w","x","y","z">>
DigitChars == <<"0","1","2","3","4","5","6","7","8","9">>

Range(s) == {s[i] : i \in 1..Len(s)}

IndexOf(s, c) == CHOOSE i \in 1..Len(s) : s[i] = c

IsDigit(c) == c \in Range(DigitChars)

DigitVal(c) == IndexOf(DigitChars, c) - 1

\* \s of the regular expressions and of String.prototype.trim
IsSpace(c) == c \in {" ", "\t"}

LowerChar(c) == IF c \in Range(UpperChars) THEN LowerChars[IndexOf(UpperChars, c)] ELSE c

\* String.prototype.toLowerCase
ToLowerCase(s) == [i \in 1..Len(s) |-> LowerChar(s[i])]

RECURSIVE TrimStart(_)
TrimStart(s) == IF s # <<>> /\ IsSpace(Head(s)) THEN TrimStart(Tail(s)) ELSE s

RECURSIVE TrimEnd(_)
TrimEnd(s) ==
  IF s # <<>> /\ IsSpace(s[Len(s)]) THEN TrimEnd(SubSeq(s, 1, Len(s) - 1)) ELSE s

\* String.prototype.trim
Trim(s) == TrimEnd(TrimStart(s))

\* s.replace(/\s+/g, '-'): every maximal run of white space becomes one hyphen
RECURSIVE ReplaceSpaceRuns(_)
ReplaceSpaceRuns(s) ==
  IF s = <<>> THEN <<>>
  ELSE IF IsSpace(Head(s)) THEN <<"-">> \o ReplaceSpaceRuns(TrimStart(s))
  ELSE <<Head(s)>> \o ReplaceSpaceRuns(Tail(s))

IsIdChar(c) == c \in Range(LowerChars) \/ IsDigit(c) \/ c = "-"

\* s.replace(/[^a-z0-9-]/g, '')
StripNonIdChars(s) == SelectSeq(s, IsIdChar)

\* s.replace(',', '.'): a string pattern replaces the first occurrence only
ReplaceFirstComma(s) ==
  IF "," \in Range(s)
    THEN LET k == CHOOSE i \in 1..Len(s) :
                    s[i] = "," /\ \A j \in 1..(i - 1) : s[j] # ","
         IN  [i \in 1..Len(s) |-> IF i = k THEN "." ELSE s[i]]
    ELSE s

\* ------------------------------------------------------------ values

Scale == 10

Num(n)  == [s |-> <<>>, n |-> n, t |-> "num"]
Str(s)  == [s |-> s, n |-> 0, t |-> "str"]
Bool(b) == [s |-> <<>>, n |-> IF b THEN 1 ELSE 0, t |-> "bool"]
NaN       == [s |-> <<>>, n |-> 0, t |-> "nan"]
Undefined == [s |-> <<>>, n |-> 0, t |-> "undef"]
Null      == [s |-> <<>>, n |-> 0, t |-> "null"]

\* the longest prefix of s made of digits
RECURSIVE DigitPrefix(_)
DigitPrefix(s) ==
  IF s # <<>> /\ IsDigit(Head(s)) THEN <<Head(s)>> \o DigitPrefix(Tail(s)) ELSE <<>>

RECURSIVE DigitsValue(_)
DigitsValue(d) ==
  IF d = <<>> THEN 0 ELSE DigitsValue(SubSeq(d, 1, Len(d) - 1)) * 10 + DigitVal(d[Len(d)])

\* parseFloat: leading white space is skipped, then an optional sign, digits, an
\* optional fraction; whatever follows is ignored; no digit at all gives NaN.
\* The value is in tenths: the first fractional digit is the last one kept.
ParseFloat(s) ==
  LET t      == TrimStart(s)
      neg    == t # <<>> /\ Head(t) = "-"
      signed == t # <<>> /\ Head(t) \in {"-", "+"}
      u      == IF signed THEN Tail(t) ELSE t
      ip     == DigitPrefix(u)
      rest   == SubSeq(u, Len(ip) + 1, Len(u))
      fp     == IF rest # <<>> /\ Head(rest) = "." THEN DigitPrefix(Tail(rest)) ELSE <<>>
      mag    == DigitsValue(ip) * Scale + (IF fp = <<>> THEN 0 ELSE DigitVal(fp[1]))
  IN  IF ip = <<>> /\ fp = <<>> THEN NaN
      ELSE Num(IF neg THEN 0 - mag ELSE mag)

\* JavaScript truthiness
Truthy(v) ==
  CASE v.t = "num"  -> v.n # 0
    [] v.t = "str"  -> v.s # <<>>
    [] v.t = "bool" -> v.n = 1
    [] OTHER        -> FALSE

\* a || b
Or(a, b) == IF Truthy(a) THEN a ELSE b

\* the decimal digits of a natural number
RECURSIVE NatToString(_)
NatToString(n) ==
  IF n < 10 THEN <<DigitChars[n + 1]>>
  ELSE NatToString(n \div 10) \o <<DigitChars[(n % 10) + 1]>>

\* String(v): a string is itself, a number its decimal notation
StringOf(v) ==
  CASE v.t = "str"   -> v.s
    [] v.t = "num"   ->
         LET m == IF v.n < 0 THEN 0 - v.n ELSE v.n
             whole == NatToString(m \div Scale)
             frac == IF m % Scale = 0 THEN <<>> ELSE <<".">> \o NatToString(m % Scale)
         IN  (IF v.n < 0 THEN <<"-">> ELSE <<>>) \o whole \o frac
    [] v.t = "nan"   -> <<"N","a","N">>
    [] v.t = "bool"  -> IF v.n = 1 THEN <<"t","r","u","e">> ELSE <<"f","a","l","s","e">>
    [] v.t = "null"  -> <<"n","u","l","l">>
    [] OTHER         -> <<"u","n","d","e","f","i","n","e","d">>

\* ------------------------------------------------------------ rows

FactorKeys == <<"f8","f9","f10","f11","f12","f13","f14","f15","f16","f17","f18","f19">>

FactorKeySet == Range(FactorKeys)

\* key.toUpperCase() for the keys of the factors
UpperKey(key) ==
  <<"F8","F9","F10","F11","F12","F13","F14","F15","F16","F17","F18","F19">>[IndexOf(FactorKeys, key)]

\* n.toFixed(4) for a number of tenths that is not negative
ToFixed4(n) ==
  NatToString(n \div Scale) \o <<".">> \o NatToString(n % Scale) \o <<"0","0","0">>

\* mutation of parseNumber: parseInt in the place of parseFloat
ParseNumberInt(value) ==
  CASE value.t \in {"num", "nan"} -> value
    [] value.t = "str" ->
         LET f == ParseFloat(ReplaceFirstComma(value.s))
             m == IF f.n < 0 THEN 0 - f.n ELSE f.n
         IN  IF f.t = "num" /\ m >= Scale
               THEN Num((IF f.n < 0 THEN 0 - 1 ELSE 1) * (m \div Scale) * Scale)
               ELSE Num(0)
    [] OTHER -> Num(0)

\* parseNumber of rowToTaxQualification
ParseNumber(value) ==
  CASE value.t \in {"num", "nan"} -> value
    [] value.t = "str" -> Or(ParseFloat(ReplaceFirstComma(value.s)), Num(0))
    [] OTHER -> Num(0)

\* rowToTaxQualification(row, brokerId); now is the reading of the clock
RowToTaxQualification(row, brokerId, now) ==
  [ brokerId          |-> brokerId,
    instrument        |-> Str(Trim(StringOf(Or(row.instrumento, Str(<<>>))))),
    market            |-> Str(Trim(StringOf(Or(row.mercado, Str(<<>>))))),
    period            |-> Str(Trim(StringOf(Or(row.periodo, Str(<<>>))))),
    qualificationType |-> Str(Trim(StringOf(Or(row.tipo_calificacion, Str(<<>>))))),
    hasFactors        |-> TRUE,
    factors           |-> [ f8 |-> ParseNumber(row.f8), f9 |-> ParseNumber(row.f9),
                            f10 |-> ParseNumber(row.f10), f11 |-> ParseNumber(row.f11),
                            f12 |-> ParseNumber(row.f12), f13 |-> ParseNumber(row.f13),
                            f14 |-> ParseNumber(row.f14), f15 |-> ParseNumber(row.f15),
                            f16 |-> ParseNumber(row.f16), f17 |-> ParseNumber(row.f17),
                            f18 |-> ParseNumber(row.f18), f19 |-> ParseNumber(row.f19) ],
    amount            |-> ParseNumber(row.monto),
    isOfficial        |-> Bool(row.es_oficial \in {Str(<<"t","r","u","e">>), Bool(TRUE), Str(<<"1">>)}),
    createdAt         |-> now,
    updatedAt         |-> now ]

\* sanitizeData(data)
SanitizeData(data) ==
  [ data EXCEPT
      !.instrument = IF @.t = "str" THEN Str(Trim(@.s)) ELSE Str(<<>>),
      !.market = IF @.t = "str" THEN Str(Trim(@.s)) ELSE Str(<<>>),
      !.period = IF @.t = "str" THEN Str(Trim(@.s)) ELSE Str(<<>>),
      !.qualificationType = IF @.t = "str" THEN Str(Trim(@.s)) ELSE Str(<<>>),
      !.amount = IF @.t \in {"num", "nan"} THEN @ ELSE Or(ParseFloat(StringOf(@)), Num(0)),
      !.isOfficial = Bool(@ = Bool(TRUE) \/ @ = Str(<<"t","r","u","e">>)) ]

\* ------------------------------------------------------------ validation

VError(row, field, value, message, errorType) ==
  [ value |-> value, row |-> row, field |-> field, message |-> message,
    errorType |-> errorType ]

\* validateFactorsSum(factors)
ValidateFactorsSum(factors) ==
  LET sum == factors["f8"].n + factors["f9"].n + factors["f10"].n + factors["f11"].n
           + factors["f12"].n + factors["f13"].n + factors["f14"].n + factors["f15"].n
           + factors["f16"].n + factors["f17"].n + factors["f18"].n + factors["f19"].n
  IN  [ sum |-> sum, isValid |-> sum <= 1 * Scale ]

\* !data.<field> || data.<field>.trim() === ''
MissingText(v) == ~Truthy(v) \/ (v.t = "str" /\ Trim(v.s) = <<>>)

RequiredErrors(data, rowNumber, field, message) ==
  IF MissingText(data[field])
    THEN <<VError(rowNumber, field, data[field], message, "validation")>>
    ELSE <<>>

\* mutation of the amount check: the branch for a negative amount is left out
AmountErrorsRequiredOnly(data, rowNumber) ==
  IF data.amount.t \in {"undef", "null"}
    THEN <<VError(rowNumber, "amount", data.amount, <<"El campo monto es requerido">>, "validation")>>
  ELSE <<>>

\* the checks of data.amount
AmountErrors(data, rowNumber) ==
  IF data.amount.t \in {"undef", "null"}
    THEN <<VError(rowNumber, "amount", data.amount, <<"El campo monto es requerido">>, "validation")>>
  ELSE IF data.amount.t = "num" /\ data.amount.n < 0
    THEN <<VError(rowNumber, "amount", data.amount, <<"El monto no puede ser negativo">>, "validation")>>
  ELSE <<>>

\* mutation of the checks of one factor: the range check is left out
FactorErrorsNoRange(value, key, rowNumber) ==
  IF value.t \in {"undef", "null"}
    THEN <<VError(rowNumber, key, value, <<"El factor ", UpperKey(key), " es requerido">>, "validation")>>
  ELSE IF value.t # "num"
    THEN <<VError(rowNumber, key, value, <<"El factor ", UpperKey(key), " debe ser un numero valido">>, "format")>>
  ELSE <<>>

\* the three checks made of one factor, in the order of the code
FactorErrors(value, key, rowNumber) ==
  IF value.t \in {"undef", "null"}
    THEN <<VError(rowNumber, key, value, <<"El factor ", UpperKey(key), " es requerido">>, "validation")>>
  ELSE IF value.t # "num"
    THEN <<VError(rowNumber, key, value, <<"El factor ", UpperKey(key), " debe ser un numero valido">>, "format")>>
  ELSE IF value.n < 0 \/ value.n > 1 * Scale
    THEN <<VError(rowNumber, key, value, <<"El factor ", UpperKey(key), " debe estar entre 0 y 1">>, "validation")>>
  ELSE <<>>

\* the loop over factorKeys, keys 1..k
RECURSIVE AllFactorErrors(_, _, _)
AllFactorErrors(factors, rowNumber, k) ==
  IF k = 0 THEN <<>>
  ELSE AllFactorErrors(factors, rowNumber, k - 1)
         \o FactorErrors(factors[FactorKeys[k]], FactorKeys[k], rowNumber)

\* mutation of RF-03: the sum is checked only when there is no error at all
FactorSumErrorsStrict(data, rowNumber, errors) ==
  IF errors = <<>>
    THEN LET validation == ValidateFactorsSum(data.factors)
         IN  IF ~validation.isValid
               THEN <<VError(rowNumber, "factors", Num(validation.sum),
                             <<"La suma de los factores (", ToFixed4(validation.sum),
                               ") supera el limite permitido de 1 (100%)">>, "factorSum")>>
               ELSE <<>>
    ELSE <<>>

\* RF-03: the sum is checked when no error so far names a factor
FactorSumErrors(data, rowNumber, errors) ==
  IF errors = <<>> \/ ~(\E i \in 1..Len(errors) : errors[i].field \in FactorKeySet)
    THEN LET validation == ValidateFactorsSum(data.factors)
         IN  IF ~validation.isValid
               THEN <<VError(rowNumber, "factors", Num(validation.sum),
                             <<"La suma de los factores (", ToFixed4(validation.sum),
                               ") supera el limite permitido de 1 (100%)">>, "factorSum")>>
               ELSE <<>>
    ELSE <<>>

\* validateTaxQualification(data, rowNumber)
ValidateTaxQualification(data, rowNumber) ==
  LET required ==
           RequiredErrors(data, rowNumber, "instrument", <<"El campo instrumento es requerido">>)
        \o RequiredErrors(data, rowNumber, "market", <<"El campo mercado es requerido">>)
        \o RequiredErrors(data, rowNumber, "period", <<"El campo periodo es requerido">>)
        \o RequiredErrors(data, rowNumber, "qualificationType",
                          <<"El campo tipo de calificacion es requerido">>)
        \o AmountErrors(data, rowNumber)
  IN  IF ~data.hasFactors
        THEN required \o <<VError(rowNumber, "factors", Undefined,
                                  <<"Los factores tributarios son requeridos">>, "validation")>>
        ELSE LET each == required \o AllFactorErrors(data.factors, rowNumber, Len(FactorKeys))
             IN  each \o FactorSumErrors(data, rowNumber, each)

\* validatePeriodFormat(period): /^\d{4}-Q[1-4]$/, /^\d{4}-(0[1-9]|1[0-2])$/, /^\d{4}$/
ValidatePeriodFormat(period) ==
  LET year == Len(period) >= 4 /\ \A i \in 1..4 : IsDigit(period[i])
      quarterPattern == /\ Len(period) = 7 /\ year /\ period[5] = "-" /\ period[6] = "Q"
                        /\ period[7] \in {"1", "2", "3", "4"}
      monthPattern == /\ Len(period) = 7 /\ year /\ period[5] = "-"
                      /\ \/ period[6] = "0" /\ IsDigit(period[7]) /\ period[7] # "0"
                         \/ period[6] = "1" /\ period[7] \in {"0", "1", "2"}
      yearPattern == Len(period) = 4 /\ year
  IN  quarterPattern \/ monthPattern \/ yearPattern

\* what the model keeps in the data field of a record whose data is null
NullData ==
  [ brokerId |-> <<>>, instrument |-> Undefined, market |-> Undefined, period |-> Undefined,
    qualificationType |-> Undefined, hasFactors |-> FALSE,
    factors |-> [ f8 |-> Undefined, f9 |-> Undefined, f10 |-> Undefined, f11 |-> Undefined,
                  f12 |-> Undefined, f13 |-> Undefined, f14 |-> Undefined, f15 |-> Undefined,
                  f16 |-> Undefined, f17 |-> Undefined, f18 |-> Undefined, f19 |-> Undefined ],
    amount |-> Undefined,
    isOfficial |-> Undefined, createdAt |-> 0, updatedAt |-> 0 ]

\* the ProcessedRecord pushed for a row whose sanitized data gave validationErrors
Classify(sanitized, validationErrors, rowNumber) ==
  IF Len(validationErrors) > 0
    THEN [ data |-> NullData, rowNumber |-> rowNumber, errors |-> validationErrors,
           hasData |-> FALSE, status |-> "error",
           isDuplicate |-> FALSE, existingId |-> <<>> ]
    ELSE [ data |-> sanitized, rowNumber |-> rowNumber, errors |-> <<>>,
           hasData |-> TRUE, status |-> "success",
           isDuplicate |-> FALSE, existingId |-> <<>> ]

\* the argument validateTaxQualification gets for a row of the file
SanitizedRow(row, brokerId, now) == SanitizeData(RowToTaxQualification(row, brokerId, now))

\* the body of results.data.forEach for one row
ProcessRow(row, brokerId, rowNumber, now) ==
  LET sanitized == SanitizedRow(row, brokerId, now)
  IN  Classify(sanitized, ValidateTaxQualification(sanitized, rowNumber), rowNumber)

\* processCSVFile: rowNumber is index + 2, index counted from 0
ProcessCSVFile(rows, brokerId, now) ==
  LET processedRecords == [i \in 1..Len(rows) |-> ProcessRow(rows[i], brokerId, i + 1, now)]
  IN  SubSeq(processedRecords, 1, Len(rows))

\* the same for records handed over without rowToTaxQualification: sanitizeData,
\* validateTaxQualification and the record pushed
ProcessData(data) ==
  LET processedRecords ==
        [i \in 1..Len(data) |->
           Classify(SanitizeData(data[i]),
                    ValidateTaxQualification(SanitizeData(data[i]), i + 1), i + 1)]
  IN  SubSeq(processedRecords, 1, Len(data))

\* ------------------------------------------------------------ identifiers

Hyphen == <<"-">>

\* generateQualificationId(qualification)
GenerateQualificationId(q) ==
  StripNonIdChars(ReplaceSpaceRuns(ToLowerCase(
    q.brokerId \o Hyphen \o StringOf(q.instrument) \o Hyphen \o StringOf(q.market)
      \o Hyphen \o StringOf(q.period))))

\* mutation of the lookup key: toLowerCase() is left out
LookupKeyExact(q) ==
  StringOf(q.instrument) \o Hyphen \o StringOf(q.market) \o Hyphen \o StringOf(q.period)

\* `${instrument}-${market}-${period}`.toLowerCase()
LookupKey(q) ==
  ToLowerCase(StringOf(q.instrument) \o Hyphen \o StringOf(q.market)
                \o Hyphen \o StringOf(q.period))

\* the characters of document ids, in the order of their codes
IdCharOrder == Hyphen \o DigitChars \o LowerChars

\* document ids in the order the store lists them
IdLess(a, b) ==
  \E k \in 1..(Len(a) + 1) :
    /\ k <= Len(b) + 1
    /\ \A j \in 1..(k - 1) : j <= Len(b) /\ a[j] = b[j]
    /\ \/ k = Len(a) + 1 /\ k <= Len(b)
       \/ k <= Len(a) /\ k <= Len(b) /\ a[k] # b[k]
          /\ IndexOf(IdCharOrder, a[k]) < IndexOf(IdCharOrder, b[k])

\* ------------------------------------------------------------ the store

\* mutation of the document written: the creation time is stamped anew
MakeDocFresh(data, id, brokerId, createdAt, updatedAt) ==
  [ brokerId |-> brokerId, instrument |-> data.instrument, market |-> data.market,
    period |-> data.period, qualificationType |-> data.qualificationType,
    hasFactors |-> data.hasFactors, factors |-> data.factors,
    amount |-> data.amount, isOfficial |-> data.isOfficial, createdAt |-> updatedAt,
    updatedAt |-> updatedAt, id |-> id, deleted |-> FALSE ]

\* the document set() writes for a qualification: toFirestoreFormat(data)
MakeDoc(data, id, brokerId, createdAt, updatedAt) ==
  [ brokerId |-> brokerId, instrument |-> data.instrument, market |-> data.market,
    period |-> data.period, qualificationType |-> data.qualificationType,
    hasFactors |-> data.hasFactors, factors |-> data.factors,
    amount |-> data.amount, isOfficial |-> data.isOfficial, createdAt |-> createdAt,
    updatedAt |-> updatedAt, id |-> id, deleted |-> FALSE ]

\* fromFirestoreFormat(doc): the fields of the document, id from the document's key
FromFirestoreFormat(st, id) == [st[id] EXCEPT !.id = id]

\* getDocs(query(collection, where('brokerId', '==', brokerId)))
ExistingSnapshot(st, brokerId) ==
  {FromFirestoreFormat(st, id) : id \in {j \in DOMAIN st : st[j].brokerId = brokerId}}

\* existingMap: the documents are set in the order of their ids, the last one
\* set under a key is the one the key maps to
BuildExistingMap(docs) ==
  LET keyed == {<<LookupKey(d), d>> : d \in docs}
  IN  [ k \in {p[1] : p \in keyed} |->
          LET same == {p[2] : p \in {q \in keyed : q[1] = k}}
          IN  CHOOSE d \in same : \A e \in same : e.id = d.id \/ IdLess(e.id, d.id) ]

\* batch.commit(): the set() operations of the batch, applied together, in order
ApplyBatch(st, ops) ==
  LET ids == {ops[i].id : i \in 1..Len(ops)}
      last(id) == CHOOSE i \in 1..Len(ops) :
                    ops[i].id = id /\ \A j \in (i + 1)..Len(ops) : ops[j].id # id
  IN  [ id \in DOMAIN st \cup ids |-> IF id \in ids THEN ops[last(id)].doc ELSE st[id] ]

\* ------------------------------------------------------------ processBulkUpload

BATCH_SIZE == 500

Progress(current, total, phase, batch) ==
  [ current |-> current, total |-> total, phase |-> phase, batch |-> batch ]

\* the locals of processBulkUpload when the loop over the records begins
LoopInit(records, progress) ==
  [ errors |-> 0, records |-> records, progress |-> progress,
    batches |-> <<>>, currentBatch |-> <<>>, operationsInBatch |-> 0, processedCount |-> 0,
    added |-> 0, updated |-> 0, successRecords |-> <<>>,
    errorRecords |-> <<>>, calls |-> <<progress>> ]

\* mutation of the batch limit: > in the place of >=
AfterWriteLate(l, total) ==
  LET reported ==
        IF l.processedCount % 100 = 0 \/ l.processedCount = total
          THEN [l EXCEPT !.progress =
                  Progress(l.processedCount, total, "Procesando registros...", 0),
                         !.calls =
                  Append(@, Progress(l.processedCount, total, "Procesando registros...", 0))]
          ELSE l
  IN  IF reported.operationsInBatch > BATCH_SIZE
        THEN [reported EXCEPT !.batches = Append(@, reported.currentBatch),
                              !.currentBatch = <<>>,
                              !.operationsInBatch = 0]
        ELSE reported

\* the end of an iteration that prepared a write: progress, then the batch limit
AfterWrite(l, total) ==
  LET reported ==
        IF l.processedCount % 100 = 0 \/ l.processedCount = total
          THEN [l EXCEPT !.progress =
                  Progress(l.processedCount, total, "Procesando registros...", 0),
                         !.calls =
                  Append(@, Progress(l.processedCount, total, "Procesando registros...", 0))]
          ELSE l
  IN  IF reported.operationsInBatch >= BATCH_SIZE
        THEN [reported EXCEPT !.batches = Append(@, reported.currentBatch),
                              !.currentBatch = <<>>,
                              !.operationsInBatch = 0]
        ELSE reported

\* mutation of the error branch: the record is listed but not counted
CountErrorUncounted(l, i) ==
  [l EXCEPT !.errorRecords = Append(@, i), !.processedCount = @ + 1]

\* the branch of the loop for a record with status 'error' or no data
CountError(l, i) ==
  [l EXCEPT !.errors = @ + 1,
            !.errorRecords = Append(@, i),
            !.processedCount = @ + 1]

\* one iteration of "for (const record of processedRecords)", on record i;
\* successRecords and errorRecords hold references: the indexes of the records
LoopBody(l, i, existingMap, brokerId, now) ==
  LET record == l.records[i]
      total == Len(l.records)
  IN  IF record.status = "error" \/ ~record.hasData
        THEN CountError(l, i)
      ELSE LET key == LookupKey(record.data)
           IN  IF key \in DOMAIN existingMap
                 THEN LET existing == existingMap[key]
                          updatedData == MakeDoc(record.data, existing.id,
                                                 record.data.brokerId,
                                                 existing.createdAt, now)
                      IN  AfterWrite(
                            [l EXCEPT !.records[i].isDuplicate = TRUE,
                                      !.records[i].existingId = existing.id,
                                      !.records[i].status = "updated",
                                      !.currentBatch =
                                         Append(@, [id |-> existing.id, doc |-> updatedData]),
                                      !.operationsInBatch = @ + 1,
                                      !.updated = @ + 1,
                                      !.successRecords = Append(@, i),
                                      !.processedCount = @ + 1], total)
                 ELSE LET id == GenerateQualificationId(record.data)
                          newData == MakeDoc(record.data, id, brokerId, now, now)
                      IN  AfterWrite(
                            [l EXCEPT !.currentBatch = Append(@, [id |-> id, doc |-> newData]),
                                      !.operationsInBatch = @ + 1,
                                      !.added = @ + 1,
                                      !.successRecords = Append(@, i),
                                      !.processedCount = @ + 1], total)

\* the iterations lo..hi of the loop, in order: the first half, then, the records
\* not being exhausted, the second half (halving keeps the evaluation shallow)
RECURSIVE LoopRange(_, _, _, _, _, _)
LoopRange(l, lo, hi, existingMap, brokerId, now) ==
  IF lo > hi THEN l
  ELSE IF lo = hi THEN LoopBody(l, lo, existingMap, brokerId, now)
  ELSE LET mid == (lo + hi) \div 2
           left == LoopRange(l, lo, mid, existingMap, brokerId, now)
       IN  IF left.processedCount < hi
             THEN LoopRange(left, mid + 1, hi, existingMap, brokerId, now)
             ELSE left

\* "Agregar el ultimo batch si tiene operaciones"
PushLastBatch(l) ==
  IF l.operationsInBatch > 0
    THEN [l EXCEPT !.batches = Append(@, l.currentBatch),
                   !.currentBatch = <<>>, !.operationsInBatch = 0]
    ELSE l

\* PASO 1 (after the read) and PASO 2: the map, the loop, the last batch
PrepareBatches(records, snapshot, brokerId, now, progress) ==
  LET existingMap == BuildExistingMap(snapshot)
  IN  PushLastBatch(LoopRange(LoopInit(records, progress), 1, Len(records),
                              existingMap, brokerId, now))

\* ------------------------------------------------------------ inputs

MaxRows == 3
MaxCalls == 2
MaxBatches == 2

Brokers == {<<"b","1">>}

Text(a, b, c, d) == Str(<<a, b, c, d>>)

\* a valid row of the file: nine factors of 0.1, amount 100
BaseRow ==
  [ instrumento |-> Text("A","A","P","L"), mercado |-> Text("N","Y","S","E"),
    periodo |-> Str(<<"2","0","2","4","-","Q","1">>),
    tipo_calificacion |-> Str(<<"D","I","V">>),
    f8 |-> Str(<<"0",".","1">>), f9 |-> Str(<<"0",".","1">>), f10 |-> Str(<<"0",".","1">>),
    f11 |-> Str(<<"0",".","1">>), f12 |-> Str(<<"0",".","1">>), f13 |-> Str(<<"0",".","1">>),
    f14 |-> Str(<<"0",".","1">>), f15 |-> Str(<<"0",".","1">>), f16 |-> Str(<<"0",".","1">>),
    f17 |-> Str(<<"0">>), f18 |-> Str(<<"0">>), f19 |-> Str(<<"0">>),
    monto |-> Str(<<"1","0","0">>), es_oficial |-> Str(<<"f","a","l","s","e">>) ]

\* the rows of the small files: the example of the specification (AAPL twice, the
\* second with another amount, MSFT with f8 = 1.5), a row that differs from AAPL
\* in case only, and two instruments that differ in a space against a hyphen
RowAmount200 == [BaseRow EXCEPT !.monto = Str(<<"2","0","0">>)]
RowLowerCase == [BaseRow EXCEPT !.instrumento = Text("a","a","p","l"),
                                !.mercado = Text("N","y","s","e"),
                                !.periodo = Str(<<"2","0","2","4","-","q","1">>)]
RowBadFactor == [BaseRow EXCEPT !.instrumento = Text("M","S","F","T"),
                                !.f8 = Str(<<"1",".","5">>)]
RowSpace  == [BaseRow EXCEPT !.instrumento = Str(<<"A"," ","B">>)]
RowHyphen == [BaseRow EXCEPT !.instrumento = Str(<<"A","-","B">>)]

SmallRows == {BaseRow, RowAmount200, RowLowerCase, RowBadFactor}

\* the instrument A-B of the market NYSE, and the instrument A of the market B-NYSE
RowHyphenMarket == [BaseRow EXCEPT !.instrumento = Str(<<"A">>),
                                   !.mercado = Str(<<"B","-","N","Y","S","E">>)]

HyphenRows == {RowHyphen, RowHyphenMarket, BaseRow}

CollidingRows == {RowSpace, RowHyphen, BaseRow}

RECURSIVE SeqsUpTo(_, _)
SeqsUpTo(S, n) ==
  IF n = 0 THEN {<<>>}
  ELSE LET shorter == SeqsUpTo(S, n - 1)
       IN  shorter \cup {Append(q, e) : q \in {r \in shorter : Len(r) = n - 1}, e \in S}

\* an input of processFile: the data rows of a file, or n generated rows
FileOf(rows) == [n |-> 0, data |-> <<>>, rows |-> rows, kind |-> "rows", bad |-> 0]
BulkOf(n, bad) == [n |-> n, data |-> <<>>, rows |-> <<>>, kind |-> "bulk", bad |-> bad]
DirectOf(data) == [n |-> 0, data |-> data, rows |-> <<>>, kind |-> "direct", bad |-> 0]
DupOf(n) == [n |-> n, data |-> <<>>, rows |-> <<>>, kind |-> "dup", bad |-> 0]

SmallFiles == {FileOf(rows) : rows \in SeqsUpTo(SmallRows, MaxRows)}

CollidingFiles == {FileOf(rows) : rows \in SeqsUpTo(CollidingRows, MaxRows)}

HyphenFiles == {FileOf(rows) : rows \in SeqsUpTo(HyphenRows, MaxRows)}

\* row i of a generated file: instrument I<i>; with bad > 0 every bad-th row has f8 = 1.5
BulkRow(i, bad) ==
  [BaseRow EXCEPT !.instrumento = Str(<<"I">> \o NatToString(i)),
                  !.f8 = IF bad > 0 /\ i % bad = 0 THEN Str(<<"1",".","5">>) ELSE @]

BulkSizes ==
  UNION {{k * BATCH_SIZE - 1, k * BATCH_SIZE, k * BATCH_SIZE + 1} : k \in 1..MaxBatches}

\* generated files whose last row repeats the first with another amount, the two
\* rows falling into different batches
DupFiles == {DupOf(k * BATCH_SIZE + 1) : k \in 1..MaxBatches}

BulkFiles == {BulkOf(n, bad) : n \in BulkSizes, bad \in {0, 2}} \cup DupFiles

\* the data rows of an input file
FileRows(inp) ==
  CASE inp.kind = "bulk" -> [i \in 1..inp.n |-> BulkRow(i, inp.bad)]
    [] inp.kind = "dup" ->
         [i \in 1..inp.n |->
            IF i = inp.n THEN [BulkRow(1, 0) EXCEPT !.monto = Str(<<"2","0","0">>)]
            ELSE BulkRow(i, 0)]
    [] OTHER -> inp.rows

NoInput == FileOf(<<>>)

\* the cells a numeric column is given in the single-row files
NumericCells ==
  { Str(<<"0",".","1">>), Str(<<"1">>), Str(<<"1",".","5">>), Str(<<"1",",","5">>),
    Str(<<"-","0",".","1">>), Str(<<"-","5">>), Str(<<"a","b","c">>), Str(<<>>),
    Str(<<"0",".","5","x">>), Str(<<" ","0",".","2">>), Undefined,
    Num(5), Num(15), Num(0 - 1) }

PeriodCells ==
  { Str(<<"2","0","2","4","-","1","3">>), Str(<<"2","0","2","4","-","0","1">>),
    Str(<<"2","0","2","4">>), Str(<<"2","0","2","4","-","Q","5">>),
    Str(<<" ","2","0","2","4","-","Q","1"," ">>), Str(<<>>), Num(2024 * Scale), Undefined }

\* every factor 0.1: the sum is 1.2
OverRow ==
  [BaseRow EXCEPT !.f17 = Str(<<"0",".","1">>), !.f18 = Str(<<"0",".","1">>),
                  !.f19 = Str(<<"0",".","1">>)]

\* ten factors of 0.1: the sum is 1
ExactRow == [BaseRow EXCEPT !.f17 = Str(<<"0",".","1">>)]

\* a valid row of another instrument, the second row of the single-row files
OtherRow == [BaseRow EXCEPT !.instrumento = Str(<<"Z","Z">>)]

RichRows ==
     {[BaseRow EXCEPT ![k] = c] : k \in FactorKeySet \cup {"monto"}, c \in NumericCells}
  \cup {[BaseRow EXCEPT !.periodo = c] : c \in PeriodCells}
  \cup {[r EXCEPT !.instrumento = i, !.monto = m] :
          r \in {OverRow, ExactRow, [OverRow EXCEPT !.f8 = Str(<<"1",".","5">>)]},
          i \in {BaseRow.instrumento, Str(<<" ">>)},
          m \in {BaseRow.monto, Str(<<"-","5">>)}}

RichFiles == {FileOf(<<r, OtherRow>>) : r \in RichRows}

\* records handed to sanitizeData and validateTaxQualification as they are
BaseData == RowToTaxQualification(BaseRow, <<"b","1">>, 1)

OtherData == RowToTaxQualification(OtherRow, <<"b","1">>, 1)

DirectValues == { NaN, Undefined, Null, Str(<<"0",".","5">>), Num(15), Num(0 - 1), Num(5) }

DirectData ==
     {[BaseData EXCEPT !.factors[k] = v] : k \in FactorKeySet, v \in DirectValues}
  \cup {[BaseData EXCEPT !.amount = v] : v \in {Undefined, Null, Num(0 - 50), NaN}}
  \cup {[BaseData EXCEPT !.hasFactors = FALSE], [BaseData EXCEPT !.instrument = Undefined]}

DirectInputs == {DirectOf(<<d, OtherData>>) : d \in DirectData}

\* the records validateTaxQualification is given for an input
InputSanitized(inp, b, now) ==
  IF inp.kind = "direct"
    THEN [i \in 1..Len(inp.data) |-> SanitizeData(inp.data[i])]
    ELSE [i \in 1..Len(FileRows(inp)) |-> SanitizedRow(FileRows(inp)[i], b, now)]

\* ------------------------------------------------------------ files

\* a line of a file below its header: an empty line, or the cells of a row
DataLine(row) == [row |-> row, blank |-> FALSE]

\* the cells of an empty row of a sheet: defval '' in every column
EmptyRow == [k \in DOMAIN BaseRow |-> Str(<<>>)]

BlankLine == [row |-> EmptyRow, blank |-> TRUE]

\* the header row of a sheet
HeaderRow == [k \in DOMAIN BaseRow |-> Str(<<"h">>)]

\* a File: name and extension, whether it is over 10 MB, whether the reader can
\* read it, whether its content is damaged (a quote left open in a CSV, a
\* workbook that cannot be opened), whether it has a header line, and its lines
\* below the header
SourceFile(name, ext, lines) ==
  [ name |-> name, ext |-> ext, lines |-> lines, large |-> FALSE, readable |-> TRUE,
    malformed |-> FALSE, header |-> TRUE ]

NoFile == [SourceFile("", "", <<>>) EXCEPT !.header = FALSE]

Resolved(records) == [message |-> <<>>, records |-> records, ok |-> TRUE]

Rejected(message) == [message |-> message, records |-> <<>>, ok |-> FALSE]

\* Papa.parse(file, {header: true, skipEmptyLines: true, complete, error}): a
\* file that cannot be read goes to the error callback; any other file goes to
\* complete with the rows of its lines that are not empty in results.data, and
\* what was wrong with its lines in results.errors
PapaParse(file) ==
  LET kept == SelectSeq(file.lines, LAMBDA l : ~l.blank)
  IN  [ data   |-> [i \in 1..Len(kept) |-> kept[i].row],
        errors |-> file.malformed,
        failed |-> ~file.readable ]

\* processCSVFile(file, brokerId): the promise settles from the callbacks
ProcessCSV(file, brokerId, now) ==
  LET results == PapaParse(file)
  IN  IF results.failed
        THEN Rejected(<<"Error al parsear CSV: ", "error.message">>)
        ELSE Resolved(ProcessCSVFile(results.data, brokerId, now))

\* XLSX.utils.sheet_to_json(worksheet, {header: 1, defval: ''}): an array for
\* every row of the sheet, the header first, the blank rows among them
SheetToJson(file) ==
  IF file.header
    THEN <<HeaderRow>> \o [i \in 1..Len(file.lines) |-> file.lines[i].row]
    ELSE <<>>

\* processExcelFile(file, brokerId): the loop starts at i = 1 and rowNumber is
\* i + 1, i counted from 0
ProcessExcel(file, brokerId, now) ==
  LET jsonData == SheetToJson(file)
  IN  CASE ~file.readable -> Rejected(<<"Error al leer el archivo">>)
        [] file.malformed -> Rejected(<<"Error al procesar Excel: ", "errorMessage">>)
        [] jsonData = <<>> -> Rejected(<<"El archivo esta vacio">>)
        [] OTHER ->
             Resolved([k \in 1..(Len(jsonData) - 1) |->
                         ProcessRow(jsonData[k + 1], brokerId, k + 1, now)])

\* processFile(file, brokerId)
ProcessFileOf(file, brokerId, now) ==
  CASE file.ext = "csv" -> ProcessCSV(file, brokerId, now)
    [] file.ext \in {"xlsx", "xls"} -> ProcessExcel(file, brokerId, now)
    [] OTHER -> Rejected(<<"Formato de archivo no soportado. Use CSV o XLSX">>)

\* a line that lacks its last two cells
ShortRow == [RowBadFactor EXCEPT !.monto = Undefined, !.es_oficial = Undefined]

TwoLines == <<DataLine(BaseRow), DataLine(RowBadFactor)>>

GapLines == <<DataLine(BaseRow), BlankLine, DataLine(RowBadFactor)>>

\* the files the user may choose: sound ones with and without an empty line,
\* and one for every way a file can be wrong
UserFiles ==
  { SourceFile("a.csv", "csv", TwoLines),
    SourceFile("g.csv", "csv", GapLines),
    SourceFile("g.xlsx", "xlsx", GapLines),
    SourceFile("e.csv", "csv", <<DataLine(RowBadFactor)>>),
    [SourceFile("m.csv", "csv", <<DataLine(BaseRow), DataLine(ShortRow)>>)
       EXCEPT !.malformed = TRUE],
    [SourceFile("m.xlsx", "xlsx", TwoLines) EXCEPT !.malformed = TRUE],
    [SourceFile("u.csv", "csv", TwoLines) EXCEPT !.readable = FALSE],
    [SourceFile("u.xls", "xls", TwoLines) EXCEPT !.readable = FALSE],
    [SourceFile("z.xlsx", "xlsx", <<>>) EXCEPT !.header = FALSE],
    SourceFile("n.txt", "txt", TwoLines),
    [SourceFile("l.csv", "csv", TwoLines) EXCEPT !.large = TRUE] }

FileNamed(name) == CHOOSE f \in UserFiles : f.name = name

\* ------------------------------------------------------------ state

VARIABLES
  store,             \* the taxQualifications collection: document id -> document
  clock,             \* the time; it advances when a file is handed to processFile
  input,             \* the file the caller handed to processFile
  brokerId,          \* the brokerId argument of processFile and processBulkUpload
  processedRecords,  \* the ProcessedRecord list (processBulkUpload updates it in place)
  pc,                \* "idle", "parsed", "reading", "committing", "returned", "rejected"
  batches,           \* processBulkUpload: the prepared batches, each a list of set() operations
  pending,           \* the batches whose commit() is in flight
  failed,            \* the batches whose commit() rejected
  completedBatches,
  added, updated, errors, successRecords, errorRecords,
  progress,          \* the arguments of the last onProgress call
  progressCalls,     \* the onProgress calls of the current processBulkUpload, in order
  result,            \* the BulkUploadResult returned
  idsBefore,         \* the ids of the store when processBulkUpload was called
  again,             \* this call repeats the call before it, which returned a result
  reads,             \* the getDocs calls the current processBulkUpload has issued
  ui,                \* the state of UploadSection: its useState values
  parsing,           \* the files whose processFile has not settled
  uploading,         \* the arguments of the processBulkUpload calls that have not settled
  accounts,          \* the accounts of the authentication service, by email
  users,             \* the users collection: uid -> profile
  auditLogs,         \* the auditLogs collection, in the order of creation
  lastCall,          \* the last call of a service operation and how it ended
  responses,         \* the responses of POST /api/admin/create-user, in order
  session,           \* the email of the user the authentication service has signed in, or ""
  auth,              \* the value of AuthContext: user, userProfile, loading, error
  lookups,           \* the users whose profile an onAuthStateChanged callback is reading
  page,              \* the route the browser shows and who navigated to it
  fetched,           \* the collections the administrator dashboard has read documents of
  adminStats         \* the stats SystemStats shows

vars == << store, clock, input, brokerId, processedRecords, pc, batches, pending, failed,
           completedBatches, added, updated, errors, successRecords, errorRecords,
           progress, progressCalls, result, idsBefore, again, reads,
           ui, parsing, uploading, accounts, users, auditLogs, lastCall, responses,
           session, auth, lookups, page, fetched, adminStats >>

locals == << batches, pending, failed, completedBatches, added, updated, errors,
             successRecords, errorRecords >>

\* the variables of processFile and processBulkUpload, the store apart
service == << clock, input, brokerId, processedRecords, pc, locals, progress, progressCalls,
             result, idsBefore, again, reads >>

upload == << ui, parsing, uploading >>

admin == << accounts, users, auditLogs >>

\* the requests served and the pages of the signed-in user
browser == << session, auth, lookups, page, fetched, adminStats >>

access == << responses, browser >>

app == << upload, admin, lastCall, access >>

NoProgress == Progress(0, 0, "", 0)

NoResult ==
  [ errors |-> 0, added |-> 0, updated |-> 0, successRecords |-> <<>>, errorRecords |-> <<>>,
    returned |-> FALSE, totalRecords |-> 0 ]

EmptyStore == <<>>

NoPreview ==
  [ rows |-> 0, present |-> FALSE, fileName |-> "",
    summary |-> [errors |-> 0, added |-> 0, updated |-> 0] ]

\* the state of the component when it is mounted
MountedUploadSection ==
  [ processedRecords |-> <<>>, selectedFile |-> NoFile, filePreview |-> NoPreview,
    uploadResult |-> NoResult, isProcessing |-> FALSE, isUploading |-> FALSE,
    currentStep |-> "select", error |-> <<>> ]

NoStats ==
  [ totalQualifications |-> 0, validatedFactors |-> 0, reportsGenerated |-> 0,
    successRate |-> 0 ]

\* how a call of the service ends: an error thrown, or a value returned (null,
\* a document, a list of documents, statistics, an id, nothing)
Thrown(message) ==
  [ message |-> message, id |-> <<>>, docs |-> <<>>, kind |-> "error", result |-> NoResult,
    threw |-> TRUE, stats |-> NoStats ]

Returned(kind, docs, stats, id) ==
  [ message |-> <<>>, id |-> id, docs |-> docs, kind |-> kind, result |-> NoResult,
    threw |-> FALSE, stats |-> stats ]

NoProfile == [present |-> FALSE, uid |-> "", rol |-> ""]

\* the value AuthProvider gives the context when it is mounted
MountedAuthProvider ==
  [error |-> "", user |-> "", userProfile |-> NoProfile, loading |-> TRUE]

\* the initial stats of SystemStats
NoSystemStats ==
  [ totalQualifications |-> 0, totalUsers |-> 0, totalCorredores |-> 0,
    totalAdministradores |-> 0 ]

\* no operation of the services has been called
NoCall == [failed |-> FALSE, op |-> "", outcome |-> Returned("void", <<>>, NoStats, <<>>)]

Init ==
  /\ store = EmptyStore
  /\ clock = 0
  /\ input = NoInput
  /\ brokerId \in Brokers
  /\ processedRecords = <<>>
  /\ pc = "idle"
  /\ batches = <<>>
  /\ pending = {}
  /\ failed = {}
  /\ completedBatches = 0
  /\ added = 0 /\ updated = 0 /\ errors = 0
  /\ successRecords = <<>> /\ errorRecords = <<>>
  /\ progress = NoProgress
  /\ progressCalls = <<>>
  /\ result = NoResult
  /\ idsBefore = {}
  /\ again = FALSE
  /\ reads = 0
  /\ ui = MountedUploadSection
  /\ parsing = {}
  /\ uploading = <<>>
  /\ accounts = {}
  /\ users = <<>>
  /\ auditLogs = <<>>
  /\ lastCall = NoCall
  /\ responses = <<>>
  /\ session = ""
  /\ auth = MountedAuthProvider
  /\ lookups = {}
  /\ page = [path |-> "/login", by |-> "user"]
  /\ fetched = {}
  /\ adminStats = NoSystemStats

Settled == pc \in {"idle", "returned", "rejected"} /\ pending = {}

\* processFile on every file of a set, for every broker and time of the call
ProcessFileCalls(files) ==
  { [ brokerId |-> b, now |-> t, records |-> IF inp.kind = "direct" THEN ProcessData(inp.data)
                  ELSE ProcessCSVFile(FileRows(inp), b, t),
      input |-> inp ] :
      inp \in files, b \in Brokers, t \in 1..(MaxCalls + 1) }

\* the caller hands a file to processFile, which resolves with its records;
\* calls is ProcessFileCalls of the files the caller may choose
ProcessFile(calls) ==
  /\ Settled
  /\ clock < MaxCalls
  /\ \E c \in calls :
       /\ c.now = clock + 1
       /\ input' = c.input
       /\ brokerId' = c.brokerId
       /\ processedRecords' = c.records
       /\ again' = (pc = "returned" /\ c.input = input /\ c.brokerId = brokerId)
  /\ clock' = clock + 1
  /\ pc' = "parsed"
  /\ batches' = <<>> /\ pending' = {} /\ failed' = {} /\ completedBatches' = 0
  /\ added' = 0 /\ updated' = 0 /\ errors' = 0
  /\ successRecords' = <<>> /\ errorRecords' = <<>>
  /\ progress' = NoProgress
  /\ progressCalls' = <<>>
  /\ result' = NoResult
  /\ reads' = 0
  /\ UNCHANGED << store, idsBefore >>
  /\ UNCHANGED app

\* processBulkUpload(processedRecords, brokerId, onProgress) up to "await getDocs"
BulkUploadStart ==
  /\ pc = "parsed"
  /\ pc' = "reading"
  /\ progress' = Progress(0, Len(processedRecords), "Cargando registros existentes...", 0)
  /\ progressCalls' = Append(progressCalls, progress')
  /\ idsBefore' = DOMAIN store
  /\ reads' = reads + 1
  /\ UNCHANGED << store, clock, input, brokerId, processedRecords, locals, result, again >>
  /\ UNCHANGED app

\* mutation of the loop: every record is looked up with a read of its own
ReadSucceedsPerRow ==
  /\ pc = "reading"
  /\ LET l == PrepareBatches(processedRecords, ExistingSnapshot(store, brokerId), brokerId,
                             clock,
                             Progress(0, Len(processedRecords), "Preparando operaciones...", 0))
     IN  /\ processedRecords' = l.records
         /\ batches' = l.batches
         /\ pending' = 1..Len(l.batches)
         /\ failed' = {}
         /\ added' = l.added /\ updated' = l.updated /\ errors' = l.errors
         /\ successRecords' = l.successRecords /\ errorRecords' = l.errorRecords
         /\ progress' = Progress(Len(processedRecords), Len(processedRecords),
                                 "Guardando en base de datos...", 0)
         /\ progressCalls' = (progressCalls \o l.calls) \o <<progress'>>
  /\ completedBatches' = 0
  /\ pc' = "committing"
  /\ reads' = reads + Len(processedRecords)
  /\ UNCHANGED << store, clock, input, brokerId, result, idsBefore, again >>
  /\ UNCHANGED app

\* getDocs resolves: the map, the loop over the records, the batches, and
\* Promise.all(batches.map(...)) which calls commit() on every batch
ReadSucceeds ==
  /\ pc = "reading"
  /\ LET l == PrepareBatches(processedRecords, ExistingSnapshot(store, brokerId), brokerId,
                             clock,
                             Progress(0, Len(processedRecords), "Preparando operaciones...", 0))
     IN  /\ processedRecords' = l.records
         /\ batches' = l.batches
         /\ pending' = 1..Len(l.batches)
         /\ failed' = {}
         /\ added' = l.added /\ updated' = l.updated /\ errors' = l.errors
         /\ successRecords' = l.successRecords /\ errorRecords' = l.errorRecords
         /\ progress' = Progress(Len(processedRecords), Len(processedRecords),
                                 "Guardando en base de datos...", 0)
         /\ progressCalls' = (progressCalls \o l.calls) \o <<progress'>>
  /\ completedBatches' = 0
  /\ pc' = "committing"
  /\ UNCHANGED << store, clock, input, brokerId, result, idsBefore, again, reads >>
  /\ UNCHANGED app

\* getDocs rejects: the catch block throws the generic error
ReadFails ==
  /\ pc = "reading"
  /\ pc' = "rejected"
  /\ UNCHANGED << store, clock, input, brokerId, processedRecords, locals, progress,
                  progressCalls, result, idsBefore, again, reads >>
  /\ UNCHANGED app

\* mutation of the callback of batches.map: the label carries index + 1
CommitSucceedsIndex(b) ==
  /\ b \in pending
  /\ store' = ApplyBatch(store, batches[b])
  /\ pending' = pending \ {b}
  /\ completedBatches' = completedBatches + 1
  /\ progress' = Progress(Len(processedRecords), Len(processedRecords), "Guardando batch", b)
  /\ progressCalls' = Append(progressCalls, progress')
  /\ UNCHANGED << clock, input, brokerId, processedRecords, pc, batches, failed, added, updated,
                  errors, successRecords, errorRecords, result, idsBefore, again, reads >>
  /\ UNCHANGED app

\* the commit of batch b resolves; the callback of batches.map goes on
CommitSucceeds(b) ==
  /\ b \in pending
  /\ store' = ApplyBatch(store, batches[b])
  /\ pending' = pending \ {b}
  /\ completedBatches' = completedBatches + 1
  /\ progress' = Progress(Len(processedRecords), Len(processedRecords),
                          "Guardando batch", completedBatches + 1)
  /\ progressCalls' = Append(progressCalls, progress')
  /\ UNCHANGED << clock, input, brokerId, processedRecords, pc, batches, failed, added, updated,
                  errors, successRecords, errorRecords, result, idsBefore, again, reads >>
  /\ UNCHANGED app

\* mutation of a rejected commit: the rejection is caught in the callback of
\* batches.map, so that Promise.all does not reject
CommitFailsSilently(b) ==
  /\ b \in pending
  /\ pending' = pending \ {b}
  /\ failed' = failed \cup {b}
  /\ UNCHANGED << store, clock, input, brokerId, processedRecords, pc, batches,
                  completedBatches, added, updated, errors, successRecords, errorRecords,
                  progress, progressCalls, result, idsBefore, again, reads >>
  /\ UNCHANGED app

\* the commit of batch b rejects: Promise.all rejects, the catch block throws
CommitFails(b) ==
  /\ b \in pending
  /\ pending' = pending \ {b}
  /\ failed' = failed \cup {b}
  /\ pc' = "rejected"
  /\ UNCHANGED << store, clock, input, brokerId, processedRecords, batches,
                  completedBatches, added, updated, errors, successRecords, errorRecords,
                  progress, progressCalls, result, idsBefore, again, reads >>
  /\ UNCHANGED app

\* Promise.all resolves: the BulkUploadResult is returned
Return ==
  /\ pc = "committing"
  /\ pending = {}
  /\ pc' = "returned"
  /\ result' = [ errors |-> errors, added |-> added,
                 updated |-> updated, successRecords |-> successRecords, errorRecords |-> errorRecords,
                 returned |-> TRUE, totalRecords |-> Len(processedRecords) ]
  /\ UNCHANGED << store, clock, input, brokerId, processedRecords, locals, progress,
                  progressCalls, idsBefore, again, reads >>
  /\ UNCHANGED app

BulkUpload ==
  \/ BulkUploadStart
  \/ ReadSucceeds
  \/ ReadFails
  \/ \E b \in pending : CommitSucceeds(b)
  \/ \E b \in pending : CommitFails(b)
  \/ Return

SmallCalls == ProcessFileCalls(SmallFiles)

ProcessSmallFile == ProcessFile(SmallCalls)

Next == ProcessSmallFile \/ BulkUpload

Spec == Init /\ [][Next]_vars

CollidingCalls == ProcessFileCalls(CollidingFiles)

ProcessCollidingFile == ProcessFile(CollidingCalls)

NextIds == ProcessCollidingFile \/ BulkUpload

SpecIds == Init /\ [][NextIds]_vars

HyphenCalls == ProcessFileCalls(HyphenFiles)

ProcessHyphenFile == ProcessFile(HyphenCalls)

\* uploads of files whose rows have hyphens inside their fields
NextKeys == ProcessHyphenFile \/ BulkUpload

SpecKeys == Init /\ [][NextKeys]_vars

RichCalls == ProcessFileCalls(RichFiles)

DirectCalls == ProcessFileCalls(DirectInputs)

\* one upload of a file whose first row is any of the rich rows
ProcessRichFile == clock = 0 /\ ProcessFile(RichCalls)

\* one upload of records that were handed over directly
ProcessDirect == clock = 0 /\ ProcessFile(DirectCalls)

NextRow == ProcessRichFile \/ ProcessDirect \/ BulkUpload

SpecRow == Init /\ [][NextRow]_vars

BulkCalls == ProcessFileCalls(BulkFiles)

\* one upload of a large file into the empty collection
ProcessBulkFile == clock = 0 /\ ProcessFile(BulkCalls)

NextBulk == ProcessBulkFile \/ BulkUpload

SpecBulk == Init /\ [][NextBulk]_vars

\* ------------------------------------------------------------ UploadSection

MaxParsing == 2

\* the FilePreview handleFileProcess builds from the records of a file
PreviewOf(file, records) ==
  LET succeeded   == SelectSeq(records, LAMBDA r : r.status \in {"success", "updated"})
      inError     == SelectSeq(records, LAMBDA r : r.status = "error")
      toBeUpdated == Len(SelectSeq(records, LAMBDA r : r.isDuplicate))
  IN  [ rows |-> Len(records), present |-> TRUE, fileName |-> file.name,
        summary |-> [ errors |-> Len(inError),
                      added |-> Len(succeeded) - toBeUpdated,
                      updated |-> toBeUpdated ] ]

\* setSelectedFile(file), then handleFileProcess(file) up to "await processFile"
FileProcessBegins(file) ==
  /\ ui' = [ui EXCEPT !.selectedFile = file, !.isProcessing = TRUE, !.error = <<>>]
  /\ parsing' = parsing \cup {file}

TooLarge ==
  /\ ui' = [ui EXCEPT !.error = <<"El archivo es demasiado grande. Maximo 10MB.">>]
  /\ UNCHANGED parsing

\* the user picks one of the files in the dialog the button "Seleccionar
\* Archivo" opens
HandleFileSelect(files) ==
  /\ ui.currentStep = "select"
  /\ ~ui.isProcessing
  /\ Cardinality(parsing) < MaxParsing
  /\ \E file \in files \ parsing :
       IF file.large THEN TooLarge ELSE FileProcessBegins(file)
  /\ UNCHANGED << store, service, uploading, admin, lastCall, access >>

\* the user drops one of the files on the drop zone
HandleDrop(files) ==
  /\ ui.currentStep = "select"
  /\ Cardinality(parsing) < MaxParsing
  /\ \E file \in files \ parsing :
       IF file.ext \in {"csv", "xlsx", "xls"}
         THEN IF file.large THEN TooLarge ELSE FileProcessBegins(file)
         ELSE /\ ui' = [ui EXCEPT !.error = <<"Solo se aceptan archivos CSV y XLSX">>]
              /\ UNCHANGED parsing
  /\ UNCHANGED << store, service, uploading, admin, lastCall, access >>

\* processFile on every file the user may choose, for every broker and every
\* time of the call
UserCalls ==
  { [ brokerId |-> b, now |-> t, file |-> f, out |-> ProcessFileOf(f, b, t) ] :
      f \in UserFiles, b \in Brokers, t \in 0..MaxCalls }

\* processFile settles for a file: the rest of handleFileProcess
FileProcessSettles(file) ==
  /\ file \in parsing
  /\ parsing' = parsing \ {file}
  /\ \E c \in UserCalls :
       /\ c.file = file /\ c.brokerId = brokerId /\ c.now = clock
       /\ IF c.out.ok
            THEN ui' = [ui EXCEPT !.processedRecords = c.out.records,
                                  !.filePreview = PreviewOf(file, c.out.records),
                                  !.currentStep = "preview",
                                  !.isProcessing = FALSE]
            ELSE ui' = [ui EXCEPT !.error = c.out.message, !.isProcessing = FALSE]
  /\ UNCHANGED << store, service, uploading, admin, lastCall, access >>

\* the button "Confirmar y Guardar": handleConfirmUpload up to
\* "await processBulkUpload"
HandleConfirmUpload ==
  /\ ui.currentStep = "preview" /\ ui.filePreview.present
  /\ ~(ui.isUploading \/ ui.filePreview.summary.errors = ui.filePreview.rows)
  /\ IF Len(ui.processedRecords) = 0
       THEN UNCHANGED << ui, uploading >>
       ELSE /\ ui' = [ui EXCEPT !.isUploading = TRUE, !.error = <<>>]
            /\ uploading' = Append(uploading, ui.processedRecords)
  /\ UNCHANGED << store, service, parsing, admin, lastCall, access >>

RemoveAt(s, k) == SubSeq(s, 1, k - 1) \o SubSeq(s, k + 1, Len(s))

RECURSIVE CommitAll(_, _)
\* every batch of a processBulkUpload committed
CommitAll(st, bs) == IF bs = <<>> THEN st ELSE CommitAll(ApplyBatch(st, Head(bs)), Tail(bs))

\* processBulkUpload resolves: the records were read, prepared and committed,
\* and handleConfirmUpload shows the result
UploadResolves(k) ==
  /\ k \in 1..Len(uploading)
  /\ LET l == PrepareBatches(uploading[k], ExistingSnapshot(store, brokerId), brokerId,
                             clock, Progress(0, Len(uploading[k]), "Preparando operaciones...", 0))
     IN  /\ store' = CommitAll(store, l.batches)
         /\ ui' = [ui EXCEPT
                     !.processedRecords = IF @ = uploading[k] THEN l.records ELSE @,
                     !.uploadResult =
                        [ errors |-> l.errors, added |-> l.added,
                          updated |-> l.updated, successRecords |-> l.successRecords, errorRecords |-> l.errorRecords,
                          returned |-> TRUE,
                          totalRecords |-> Len(uploading[k]) ],
                     !.currentStep = "result",
                     !.isUploading = FALSE]
  /\ uploading' = RemoveAt(uploading, k)
  /\ UNCHANGED << service, parsing, admin, lastCall, access >>

\* processBulkUpload rejects: the catch block of handleConfirmUpload
UploadRejects(k) ==
  /\ k \in 1..Len(uploading)
  /\ ui' = [ui EXCEPT !.error = <<"Error al procesar la carga masiva">>,
                      !.isUploading = FALSE]
  /\ uploading' = RemoveAt(uploading, k)
  /\ UNCHANGED << store, service, parsing, admin, lastCall, access >>

\* handleReset()
HandleReset ==
  /\ ui' = [ui EXCEPT !.selectedFile = NoFile, !.filePreview = NoPreview,
                      !.processedRecords = <<>>, !.uploadResult = NoResult,
                      !.currentStep = "select", !.error = <<>>]
  /\ UNCHANGED << store, service, parsing, uploading, admin, lastCall, access >>

\* the button with the cross beside the name of the file in the preview
ClosePreview ==
  /\ ui.currentStep = "preview" /\ ui.filePreview.present
  /\ HandleReset

\* the button "Cancelar" of the preview, disabled while the upload runs
CancelPreview ==
  /\ ui.currentStep = "preview" /\ ui.filePreview.present
  /\ ~ui.isUploading
  /\ HandleReset

\* the button of the result that starts a new upload
NewUpload ==
  /\ ui.currentStep = "result" /\ ui.uploadResult.returned
  /\ HandleReset

\* what happens on the screen once a file was chosen
UploadSection ==
  \/ \E file \in parsing : FileProcessSettles(file)
  \/ HandleConfirmUpload
  \/ \E k \in 1..Len(uploading) : UploadResolves(k)
  \/ \E k \in 1..Len(uploading) : UploadRejects(k)
  \/ ClosePreview
  \/ CancelPreview
  \/ NewUpload

\* ------------------------------------------------------------ audit logs and users

MaxLogs == 1

Emails == {"ana", "luis"}

Roles == {"Corredor", "Administrador"}

\* the AuditLog of logUserUpdated
UserUpdatedLog(adminId, targetUserId) ==
  [ userId |-> adminId, action |-> "UPDATE", resource |-> "user",
    resourceId |-> targetUserId ]

\* logAuditEvent(log): addDoc adds the log to the collection and its id is
\* returned; a failure of addDoc is caught and '' is returned
LogAuditEvent(logs, log, fails) ==
  IF fails
    THEN [id |-> <<>>, logs |-> logs]
    ELSE [id |-> NatToString(Len(logs) + 1), logs |-> Append(logs, log)]

\* RegisterModal.handleSubmit: the RUT is checked, the account is created,
\* the profile is written under the uid of the account
RegisterSubmit ==
  /\ \E email \in Emails, rol \in Roles, validRut \in BOOLEAN, written \in BOOLEAN :
       IF validRut /\ email \notin accounts
         THEN /\ accounts' = accounts \cup {email}
              /\ users' = IF written
                            THEN [u \in DOMAIN users \cup {email} |->
                                    IF u = email THEN [rol |-> rol, creadoPor |-> ""]
                                    ELSE users[u]]
                            ELSE users
         ELSE UNCHANGED << accounts, users >>
  /\ UNCHANGED << store, service, upload, auditLogs, lastCall, access >>

MaxRequests == 1

\* the requests POST /api/admin/create-user may get: with or without the
\* Authorization header, with the token of caller (verifyIdToken accepts it
\* when caller has an account), with or without all the fields of the body
CreateUserRequests ==
  [ rol : Roles \cup {"Otro"}, email : Emails, bearer : BOOLEAN, caller : Emails,
    complete : BOOLEAN ]

\* the profile the endpoint writes for the uid of the new account
CreatedProfile(us, req) ==
  [u \in DOMAIN us \cup {req.email} |->
     IF u = req.email THEN [rol |-> req.rol, creadoPor |-> req.caller] ELSE us[u]]

\* mutation of the endpoint: the role of the caller is checked after the
\* account and the profile were created
PostCreateUserLate(req, accs, us, setFails) ==
  IF ~req.bearer THEN [status |-> 401, accounts |-> accs, users |-> us]
  ELSE IF req.caller \notin accs THEN [status |-> 500, accounts |-> accs, users |-> us]
  ELSE IF ~req.complete \/ req.rol \notin Roles
    THEN [status |-> 400, accounts |-> accs, users |-> us]
  ELSE IF req.email \in accs THEN [status |-> 500, accounts |-> accs, users |-> us]
  ELSE IF setFails
    THEN [status |-> 500, accounts |-> accs \cup {req.email}, users |-> us]
  ELSE IF req.caller \notin DOMAIN us \/ us[req.caller].rol # "Administrador"
    THEN [status |-> 403, accounts |-> accs \cup {req.email},
          users |-> CreatedProfile(us, req)]
  ELSE [status |-> 201, accounts |-> accs \cup {req.email},
        users |-> CreatedProfile(us, req)]

\* POST(req): the status of the response, and the accounts and the users
\* collection when the handler has returned; an error thrown by verifyIdToken,
\* by createUser (the email has an account) or by set() is answered with 500
PostCreateUser(req, accs, us, setFails) ==
  IF ~req.bearer THEN [status |-> 401, accounts |-> accs, users |-> us]
  ELSE IF req.caller \notin accs THEN [status |-> 500, accounts |-> accs, users |-> us]
  ELSE IF req.caller \notin DOMAIN us THEN [status |-> 403, accounts |-> accs, users |-> us]
  ELSE IF us[req.caller].rol # "Administrador"
    THEN [status |-> 403, accounts |-> accs, users |-> us]
  ELSE IF ~req.complete THEN [status |-> 400, accounts |-> accs, users |-> us]
  ELSE IF req.rol \notin Roles THEN [status |-> 400, accounts |-> accs, users |-> us]
  ELSE IF req.email \in accs THEN [status |-> 500, accounts |-> accs, users |-> us]
  ELSE IF setFails
    THEN [status |-> 500, accounts |-> accs \cup {req.email}, users |-> us]
  ELSE [status |-> 201, accounts |-> accs \cup {req.email},
        users |-> CreatedProfile(us, req)]

\* POST /api/admin/create-user serves one of the requests
CreateUser(requests) ==
  /\ Len(responses) < MaxRequests
  /\ \E req \in requests, setFails \in BOOLEAN :
       LET r == PostCreateUser(req, accounts, users, setFails)
       IN  /\ accounts' = r.accounts
           /\ users' = r.users
           /\ responses' = Append(responses, [status |-> r.status, request |-> req])
  /\ UNCHANGED << store, service, upload, auditLogs, lastCall, browser >>

\* EditUserModal.handleSubmit of the signed-in administrator userProfile:
\* updateDoc of the profile, then logUserUpdated
EditUserSubmit ==
  /\ Len(auditLogs) < MaxLogs
  /\ \E userProfile \in DOMAIN users, userId \in DOMAIN users, rol \in Roles,
        fails \in BOOLEAN :
       /\ users[userProfile].rol = "Administrador"
       /\ users' = [users EXCEPT ![userId].rol = rol]
       /\ auditLogs' = LogAuditEvent(auditLogs, UserUpdatedLog(userProfile, userId),
                                     fails).logs
  /\ UNCHANGED << store, service, upload, accounts, lastCall, access >>

\* the requests that carry a token, every field and a role of the application
WellFormedRequests ==
  {req \in CreateUserRequests : req.bearer /\ req.complete /\ req.rol \in Roles}

CreateUserWellFormed == CreateUser(WellFormedRequests)

Administration == RegisterSubmit \/ CreateUserWellFormed \/ EditUserSubmit

\* ------------------------------------------------------------ sessions and routes

Pages == {"/login", "/dashboard", "/admin"}

\* the requiredRole of the layout of a route: DashboardLayout, AdminLayout
RequiredRole(path) ==
  CASE path = "/dashboard" -> "Corredor"
    [] path = "/admin" -> "Administrador"
    [] OTHER -> ""

\* getDashboardRoute(userRole)
GetDashboardRoute(userRole) ==
  IF userRole = "Corredor" THEN "/dashboard"
  ELSE IF userRole = "Administrador" THEN "/admin"
  ELSE "/login"

\* mutation of the render of ProtectedRoute: the role is not compared
ProtectedRouteRendersAnyRole(requiredRole, requireAuth, a) ==
  IF a.loading THEN "spinner"
  ELSE IF requireAuth /\ a.user = "" THEN "null"
  ELSE "children"

\* what ProtectedRoute returns: the spinner, null or its children
ProtectedRouteRenders(requiredRole, requireAuth, a) ==
  IF a.loading THEN "spinner"
  ELSE IF requireAuth /\ a.user = "" THEN "null"
  ELSE IF requiredRole # "" /\ a.userProfile.present /\ a.userProfile.rol # requiredRole
    THEN "null"
  ELSE "children"

\* the route the effect of ProtectedRoute pushes, "" when it pushes none
ProtectedRoutePushes(requiredRole, requireAuth, a) ==
  IF a.loading THEN ""
  ELSE IF requireAuth /\ a.user = "" THEN "/login"
  ELSE IF a.user # "" /\ ~a.userProfile.present THEN "/login"
  ELSE IF requiredRole # "" /\ a.userProfile.present /\ a.userProfile.rol # requiredRole
    THEN GetDashboardRoute(a.userProfile.rol)
  ELSE ""

\* what the browser shows of the protected children of the route
Shown == IF RequiredRole(page.path) = "" THEN "page"
         ELSE ProtectedRouteRenders(RequiredRole(page.path), TRUE, auth)

\* AuthProvider: the first call of the onAuthStateChanged callback, nobody
\* being signed in
AuthStateFirst ==
  /\ auth.loading /\ session = "" /\ lookups = {}
  /\ auth' = [error |-> "", user |-> "", userProfile |-> NoProfile, loading |-> FALSE]
  /\ UNCHANGED << store, service, upload, admin, lastCall, responses, session, lookups,
                  page, fetched, adminStats >>

\* signInWithEmailAndPassword resolves for an account; the onAuthStateChanged
\* callback runs up to "await getDoc"
SignIn ==
  /\ \E email \in accounts :
       /\ session # email
       /\ session' = email
       /\ lookups' = lookups \cup {email}
  /\ auth' = [auth EXCEPT !.error = ""]
  /\ UNCHANGED << store, service, upload, admin, lastCall, responses, page, fetched,
                  adminStats >>

\* getDoc of the callback settles: the profile found, not found, or an error
ProfileLoaded ==
  /\ \E email \in lookups, fails \in BOOLEAN :
       /\ lookups' = lookups \ {email}
       /\ auth' = IF fails
                    THEN [ error |-> "Error al cargar el perfil", user |-> "", userProfile |-> NoProfile,
                           loading |-> FALSE ]
                  ELSE IF email \in DOMAIN users
                    THEN [ error |-> auth.error,
                           user |-> email,
                           userProfile |-> [ present |-> TRUE, uid |-> email,
                                             rol |-> users[email].rol ], loading |-> FALSE ]
                  ELSE [ error |-> "Perfil de usuario no encontrado", user |-> "", userProfile |-> NoProfile,
                         loading |-> FALSE ]
  /\ UNCHANGED << store, service, upload, admin, lastCall, responses, session, page,
                  fetched, adminStats >>

\* AdminDashboard.handleLogout: signOut, whose onAuthStateChanged callback
\* clears the context, then router.push('/login')
HandleLogout ==
  /\ page.path = "/admin" /\ Shown = "children"
  /\ session' = ""
  /\ auth' = [error |-> "", user |-> "", userProfile |-> NoProfile, loading |-> FALSE]
  /\ page' = [path |-> "/login", by |-> "handleLogout"]
  /\ UNCHANGED << store, service, upload, admin, lastCall, responses, lookups, fetched,
                  adminStats >>

\* Login.handleLogin: router.push('/dashboard') whatever the credentials
HandleLogin ==
  /\ page.path = "/login"
  /\ page' = [path |-> "/dashboard", by |-> "handleLogin"]
  /\ UNCHANGED << store, service, upload, admin, lastCall, responses, session, auth,
                  lookups, fetched, adminStats >>

\* the user opens a route by its address
Navigate ==
  /\ \E path \in Pages : page' = [path |-> path, by |-> "user"]
  /\ page' # page
  /\ UNCHANGED << store, service, upload, admin, lastCall, responses, session, auth,
                  lookups, fetched, adminStats >>

\* the effect of ProtectedRoute pushes a route
ProtectedRouteEffect ==
  /\ RequiredRole(page.path) # ""
  /\ ProtectedRoutePushes(RequiredRole(page.path), TRUE, auth) # ""
  /\ page' = [ path |-> ProtectedRoutePushes(RequiredRole(page.path), TRUE, auth),
               by |-> "ProtectedRoute" ]
  /\ UNCHANGED << store, service, upload, admin, lastCall, responses, session, auth,
                  lookups, fetched, adminStats >>

Sessions ==
  \/ AuthStateFirst
  \/ SignIn
  \/ ProfileLoaded
  \/ HandleLogout
  \/ HandleLogin
  \/ Navigate
  \/ ProtectedRouteEffect

\* ------------------------------------------------------------ roles and the administrator dashboard

\* canViewQualifications(userRole, resourceOwnerId, userId)
CanViewQualifications(userRole, resourceOwnerId, userId) ==
  IF userRole = "Administrador" THEN FALSE
  ELSE IF userRole = "Corredor" THEN resourceOwnerId = userId
  ELSE FALSE

\* canCreateQualification(userRole)
CanCreateQualification(userRole) == userRole = "Corredor"

\* canEditQualification(userRole, resourceOwnerId, userId)
CanEditQualification(userRole, resourceOwnerId, userId) ==
  IF userRole = "Administrador" THEN FALSE
  ELSE IF userRole = "Corredor" THEN resourceOwnerId = userId
  ELSE FALSE

\* canDeleteQualification(userRole, resourceOwnerId, userId)
CanDeleteQualification(userRole, resourceOwnerId, userId) ==
  IF userRole = "Administrador" THEN FALSE
  ELSE IF userRole = "Corredor" THEN resourceOwnerId = userId
  ELSE FALSE

\* canBulkUpload(userRole)
CanBulkUpload(userRole) == userRole = "Corredor"

\* canGenerateReports(userRole)
CanGenerateReports(userRole) == userRole = "Corredor"

\* a section of AdminDashboard is on the screen
AdminDashboardShown == page.path = "/admin" /\ Shown = "children"

\* SystemStats.loadStats: getDocs of users, of taxQualifications (all of it,
\* then the documents of the month) and of the last audit logs
LoadStats ==
  /\ AdminDashboardShown
  /\ fetched' = fetched \cup {"users", "taxQualifications", "auditLogs"}
  /\ adminStats' =
       [ totalQualifications |-> Cardinality(DOMAIN store),
         totalUsers |-> Cardinality(DOMAIN users),
         totalCorredores |-> Cardinality({u \in DOMAIN users : users[u].rol = "Corredor"}),
         totalAdministradores |->
           Cardinality({u \in DOMAIN users : users[u].rol = "Administrador"}) ]
  /\ UNCHANGED << store, service, upload, admin, lastCall, responses, session, auth,
                  lookups, page >>

\* Charts.loadChartsData: loadActivityChart, loadUsersChart and
\* loadQualificationsChart, which queries taxQualifications month by month
LoadChartsData ==
  /\ AdminDashboardShown
  /\ fetched' = fetched \cup {"auditLogs", "users", "taxQualifications"}
  /\ UNCHANGED << store, service, upload, admin, lastCall, responses, session, auth,
                  lookups, page, adminStats >>

\* UsersManagement.loadUsers and BackupManagement.exportUsers
LoadUsers ==
  /\ AdminDashboardShown
  /\ fetched' = fetched \cup {"users"}
  /\ UNCHANGED << store, service, upload, admin, lastCall, responses, session, auth,
                  lookups, page, adminStats >>

\* BackupManagement.exportAllData: users and audit logs
ExportAllData ==
  /\ AdminDashboardShown
  /\ fetched' = fetched \cup {"users", "auditLogs"}
  /\ UNCHANGED << store, service, upload, admin, lastCall, responses, session, auth,
                  lookups, page, adminStats >>

\* AuditLogs: the query of the audit logs
LoadAuditLogs ==
  /\ AdminDashboardShown
  /\ fetched' = fetched \cup {"auditLogs"}
  /\ UNCHANGED << store, service, upload, admin, lastCall, responses, session, auth,
                  lookups, page, adminStats >>

AdminDashboard ==
  \/ LoadStats
  \/ LoadChartsData
  \/ LoadUsers
  \/ ExportAllData
  \/ LoadAuditLogs

\* ------------------------------------------------------------ qualification service

MaxServiceCalls == 3

RECURSIVE NewestFirst(_)
\* orderBy('updatedAt', 'desc'): documents with the same time come in the
\* descending order of their ids
NewestFirst(docs) ==
  IF docs = {} THEN <<>>
  ELSE LET d == CHOOSE d \in docs :
                  \A e \in docs : \/ e = d
                                  \/ d.updatedAt > e.updatedAt
                                  \/ d.updatedAt = e.updatedAt /\ IdLess(e.id, d.id)
       IN  <<d>> \o NewestFirst(docs \ {d})

RECURSIVE OldestId(_)
\* the documents of a query without orderBy come in the order of their ids
OldestId(docs) ==
  IF docs = {} THEN <<>>
  ELSE LET d == CHOOSE d \in docs : \A e \in docs : e = d \/ IdLess(d.id, e.id)
       IN  <<d>> \o OldestId(docs \ {d})

\* findExistingQualification(qualification)
FindExistingQualification(st, q, fails) ==
  LET docs == OldestId({d \in ExistingSnapshot(st, q.brokerId) :
                          /\ d.instrument = q.instrument
                          /\ d.market = q.market
                          /\ d.period = q.period})
  IN  IF fails \/ docs = <<>>
        THEN Returned("null", <<>>, NoStats, <<>>)
        ELSE Returned("doc", <<Head(docs)>>, NoStats, <<>>)

\* getQualificationsByBrokerId(brokerId, maxResults)
GetQualificationsByBrokerId(st, b, maxResults, fails) ==
  LET docs == NewestFirst(ExistingSnapshot(st, b))
  IN  IF fails
        THEN Returned("list", <<>>, NoStats, <<>>)
        ELSE Returned("list", SubSeq(docs, 1, IF Len(docs) < maxResults THEN Len(docs)
                                              ELSE maxResults), NoStats, <<>>)

\* searchQualifications(brokerId, filters): a filter that is not given is Undefined
SearchQualifications(st, b, filters, fails) ==
  LET matches(d) ==
        /\ filters.instrument = Undefined \/ d.instrument = filters.instrument
        /\ filters.minAmount = Undefined \/ d.amount.n >= filters.minAmount.n
        /\ filters.maxAmount = Undefined \/ d.amount.n <= filters.maxAmount.n
  IN  IF fails
        THEN Returned("list", <<>>, NoStats, <<>>)
        ELSE Returned("list", SelectSeq(OldestId(ExistingSnapshot(st, b)), matches),
                      NoStats, <<>>)

RECURSIVE ReduceFactors(_, _)
\* Object.values(factors).reduce((acc, val) => acc + val, 0)
ReduceFactors(factors, k) ==
  IF k = 0 THEN 0 ELSE ReduceFactors(factors, k - 1) + factors[FactorKeys[k]].n

\* getBrokerStats(brokerId); successRate is in tenths of a percent
GetBrokerStats(st, b, fails) ==
  LET qualifications == ExistingSnapshot(st, b)
      totalQualifications == Cardinality(qualifications)
      validatedFactors ==
        Cardinality({d \in qualifications : ReduceFactors(d.factors, Len(FactorKeys)) <= Scale})
  IN  IF fails
        THEN Returned("stats", <<>>, NoStats, <<>>)
        ELSE Returned("stats", <<>>,
               [ totalQualifications |-> totalQualifications,
                 validatedFactors |-> validatedFactors,
                 reportsGenerated |-> totalQualifications \div 10,
                 successRate |-> IF totalQualifications > 0
                                   THEN (2000 * validatedFactors + totalQualifications)
                                          \div (2 * totalQualifications)
                                   ELSE 1000 ], <<>>)

\* the qualifications the callers of the service have at hand
ServiceData == {SanitizeData(BaseData), SanitizeData(OtherData)}

ServiceFilters ==
  { [instrument |-> i, minAmount |-> lo, maxAmount |-> Undefined] :
      i \in {Undefined, Text("A","A","P","L")}, lo \in {Undefined, Num(2000)} }

\* a call of findExistingQualification
FindExistingQualificationCall ==
  /\ \E q \in ServiceData, fails \in BOOLEAN :
       lastCall' = [ failed |-> fails, op |-> "findExistingQualification",
                     outcome |-> FindExistingQualification(store, q, fails) ]
  /\ UNCHANGED << store, service, upload, admin, access >>

\* a call of getQualificationsByBrokerId with the default maxResults
GetQualificationsByBrokerIdCall ==
  /\ \E b \in Brokers, fails \in BOOLEAN :
       lastCall' = [ failed |-> fails, op |-> "getQualificationsByBrokerId",
                     outcome |-> GetQualificationsByBrokerId(store, b, 100, fails) ]
  /\ UNCHANGED << store, service, upload, admin, access >>

\* a call of searchQualifications
SearchQualificationsCall ==
  /\ \E b \in Brokers, f \in ServiceFilters, fails \in BOOLEAN :
       lastCall' = [ failed |-> fails, op |-> "searchQualifications",
                     outcome |-> SearchQualifications(store, b, f, fails) ]
  /\ UNCHANGED << store, service, upload, admin, access >>

\* a call of getBrokerStats
GetBrokerStatsCall ==
  /\ \E b \in Brokers, fails \in BOOLEAN :
       lastCall' = [ failed |-> fails, op |-> "getBrokerStats",
                     outcome |-> GetBrokerStats(store, b, fails) ]
  /\ UNCHANGED << store, service, upload, admin, access >>

\* createQualification(qualification)
CreateQualification ==
  /\ clock < MaxServiceCalls
  /\ clock' = clock + 1
  /\ \E q \in ServiceData, fails \in BOOLEAN :
       LET id == GenerateQualificationId(q)
       IN  IF fails
             THEN /\ lastCall' = [ failed |-> TRUE, op |-> "createQualification",
                                   outcome |-> Thrown(<<"Error al guardar la calificacion en la base de datos">>) ]
                  /\ UNCHANGED store
             ELSE /\ lastCall' = [ failed |-> FALSE, op |-> "createQualification",
                                   outcome |-> Returned("id", <<>>, NoStats, id) ]
                  /\ store' = ApplyBatch(store,
                                << [ id |-> id,
                                     doc |-> MakeDoc(q, id, q.brokerId, q.createdAt,
                                                     q.updatedAt) ] >>)
  /\ UNCHANGED << input, brokerId, processedRecords, pc, locals, progress, progressCalls,
                  result, idsBefore, again, reads, upload, admin, access >>

\* updateQualification(id, qualification) of a document of the collection:
\* the fields given and updatedAt are merged into the document
UpdateQualification ==
  /\ clock < MaxServiceCalls
  /\ clock' = clock + 1
  /\ \E id \in DOMAIN store, fails \in BOOLEAN :
       IF fails
         THEN /\ lastCall' = [ failed |-> TRUE, op |-> "updateQualification",
                               outcome |-> Thrown(<<"Error al actualizar la calificacion en la base de datos">>) ]
              /\ UNCHANGED store
         ELSE /\ lastCall' = [ failed |-> FALSE, op |-> "updateQualification",
                               outcome |-> Returned("void", <<>>, NoStats, <<>>) ]
              /\ store' = [store EXCEPT ![id].amount = Num(2000),
                                        ![id].updatedAt = clock + 1]
  /\ UNCHANGED << input, brokerId, processedRecords, pc, locals, progress, progressCalls,
                  result, idsBefore, again, reads, upload, admin, access >>

\* deleteQualification(id) of a document of the collection: deleted is merged
\* into the document
DeleteQualification ==
  /\ clock < MaxServiceCalls
  /\ clock' = clock + 1
  /\ \E id \in DOMAIN store, fails \in BOOLEAN :
       IF fails
         THEN /\ lastCall' = [ failed |-> TRUE, op |-> "deleteQualification",
                               outcome |-> Thrown(<<"Error al eliminar la calificacion">>) ]
              /\ UNCHANGED store
         ELSE /\ lastCall' = [ failed |-> FALSE, op |-> "deleteQualification",
                               outcome |-> Returned("void", <<>>, NoStats, <<>>) ]
              /\ store' = [store EXCEPT ![id].deleted = TRUE]
  /\ UNCHANGED << input, brokerId, processedRecords, pc, locals, progress, progressCalls,
                  result, idsBefore, again, reads, upload, admin, access >>

\* the records the callers of processBulkUpload have at hand
ServiceRecords == {ProcessData(<<q>>) : q \in ServiceData}

\* processBulkUpload(records, brokerId) of one of the lists of records for one
\* of the brokers, from the call to the promise settled: a failure of getDocs
\* or of the commit rejects
ProcessBulkUploadOf(recordLists, brokers) ==
  /\ clock < MaxServiceCalls
  /\ clock' = clock + 1
  /\ \E records \in recordLists, b \in brokers, fails \in BOOLEAN :
       /\ brokerId' = b
       /\ LET l == PrepareBatches(records, ExistingSnapshot(store, b), b, clock + 1,
                                  Progress(0, Len(records), "Preparando operaciones...", 0))
          IN  IF fails
                THEN /\ lastCall' = [ failed |-> TRUE, op |-> "processBulkUpload",
                                      outcome |-> Thrown(<<"Error al procesar la carga masiva">>) ]
                     /\ UNCHANGED store
                ELSE /\ lastCall' = [ failed |-> FALSE, op |-> "processBulkUpload",
                                      outcome |->
                                        [ Returned("result", <<>>, NoStats, <<>>) EXCEPT
                                            !.result =
                                              [ errors |-> l.errors,
                                                added |-> l.added,
                                                updated |-> l.updated, successRecords |-> l.successRecords,
                                                errorRecords |-> l.errorRecords,
                                                returned |-> TRUE,
                                                totalRecords |-> Len(records) ] ] ]
                     /\ store' = CommitAll(store, l.batches)
  /\ UNCHANGED << input, processedRecords, pc, locals, progress, progressCalls,
                  result, idsBefore, again, reads, upload, admin, access >>

ProcessBulkUploadCall == ProcessBulkUploadOf(ServiceRecords, Brokers)

\* logAuditEvent(log) called on its own
LogAuditEventCall ==
  /\ Len(auditLogs) < MaxLogs
  /\ \E fails \in BOOLEAN :
       LET r == LogAuditEvent(auditLogs, UserUpdatedLog("ana", "luis"), fails)
       IN  /\ auditLogs' = r.logs
           /\ lastCall' = [ failed |-> fails, op |-> "logAuditEvent",
                            outcome |-> Returned("id", <<>>, NoStats, r.id) ]
  /\ UNCHANGED << store, service, upload, accounts, users, access >>

ServiceCall ==
  \/ FindExistingQualificationCall
  \/ GetQualificationsByBrokerIdCall
  \/ SearchQualificationsCall
  \/ GetBrokerStatsCall
  \/ CreateQualification
  \/ UpdateQualification
  \/ DeleteQualification
  \/ ProcessBulkUploadCall
  \/ LogAuditEventCall

SelectUserFile == HandleFileSelect(UserFiles)

DropUserFile == HandleDrop(UserFiles)

\* the upload screen alone, with every file the user may choose
NextUpload == SelectUserFile \/ DropUserFile \/ UploadSection

SpecUpload == Init /\ [][NextUpload]_vars

\* one sound file
AuditFiles == {f \in UserFiles : f.name = "a.csv"}

SelectAuditFile == HandleFileSelect(AuditFiles)

DropAuditFile == HandleDrop(AuditFiles)

\* the upload screen and the administration of users
NextAudit == SelectAuditFile \/ DropAuditFile \/ UploadSection \/ Administration

SpecAudit == Init /\ [][NextAudit]_vars

CreateUserAny == CreateUser(CreateUserRequests)

\* the users and their roles: registration, the endpoint under every request,
\* the edit of a user
NextAdmin == RegisterSubmit \/ CreateUserAny \/ EditUserSubmit

SpecAdmin == Init /\ [][NextAdmin]_vars

\* users, their sessions and the routes of the two dashboards
NextAccess == RegisterSubmit \/ EditUserSubmit \/ Sessions \/ AdminDashboard

SpecAccess == Init /\ [][NextAccess]_vars

\* the uids of three brokers; two of them differ in the case of a letter only
Tenants == {<<"b","1">>, <<"B","1">>, <<"c","2">>}

\* lists of one record each, the brokerId of the record being any of the brokers
TenantRecords ==
  {ProcessData(<<[q EXCEPT !.brokerId = t]>>) : q \in ServiceData, t \in Tenants}

TenantUpload == ProcessBulkUploadOf(TenantRecords, Tenants)

\* bulk uploads of several brokers into one collection, and deletions
NextTenants == TenantUpload \/ DeleteQualification

SpecTenants == Init /\ [][NextTenants]_vars

\* the operations of the services, called one after another
NextService == ServiceCall

SpecService == Init /\ [][NextService]_vars

\* ------------------------------------------------------------ properties

\* processFile has resolved for the input: processedRecords are its records
Parsed == pc # "idle"

\* processBulkUpload has run its loop over the records of the call
Prepared == pc \in {"committing", "returned"}

\* the qualification validateTaxQualification was given for record i of the input
Validated(i) == InputSanitized(input, brokerId, clock)[i]

\* the errors validateTaxQualification returns for record i of the input
ErrorsOf(i) == ValidateTaxQualification(Validated(i), i + 1)

FactorInRange(v) == v.t = "num" /\ 0 <= v.n /\ v.n <= Scale

AllFactorsValid(d) == d.hasFactors /\ \A k \in FactorKeySet : FactorInRange(d.factors[k])

SomeFactorInvalid(d) == d.hasFactors /\ \E k \in FactorKeySet : ~FactorInRange(d.factors[k])

RECURSIVE SumOfFactors(_, _)
SumOfFactors(d, k) ==
  IF k = 0 THEN 0 ELSE SumOfFactors(d, k - 1) + d.factors[FactorKeys[k]].n

PresentText(v) == v.t = "str" /\ \E j \in 1..Len(v.s) : ~IsSpace(v.s[j])

\* everything but the amount is valid
OtherwiseValid(d) ==
  /\ PresentText(d.instrument) /\ PresentText(d.market)
  /\ PresentText(d.period) /\ PresentText(d.qualificationType)
  /\ AllFactorsValid(d)
  /\ SumOfFactors(d, Len(FactorKeys)) <= Scale

\* record i is an error record for which nothing is written: it is counted in
\* errors, is no success record, and no operation and no document of the store
\* carries its instrument (the records of one input differ in their instruments)
ExcludedFromWrites(i) ==
  /\ processedRecords[i].status = "error"
  /\ ~processedRecords[i].hasData
  /\ Prepared =>
       /\ i \in Range(errorRecords)
       /\ i \notin Range(successRecords)
       /\ errors = Len(errorRecords)
       /\ \A b \in 1..Len(batches) : \A j \in 1..Len(batches[b]) :
            batches[b][j].doc.instrument # Validated(i).instrument
  /\ \A id \in DOMAIN store : store[id].instrument # Validated(i).instrument

\* C1: whenever processBulkUpload has returned a BulkUploadResult, added +
\* updated + errors equals totalRecords, which is the number of records of the
\* input; successRecords has added + updated entries and errorRecords has
\* errors entries.
C1_RowCountConservation ==
  result.returned =>
    /\ result.added + result.updated + result.errors = result.totalRecords
    /\ result.totalRecords = Len(FileRows(input))
    /\ Len(result.successRecords) = result.added + result.updated
    /\ Len(result.errorRecords) = result.errors

\* a result over three records, against existing documents, with an update and an error
C1_Witness ==
  /\ result.returned
  /\ result.totalRecords = 3
  /\ result.updated >= 1
  /\ result.errors >= 1
  /\ idsBefore # {}

\* the call in progress repeats, for the same broker and with nothing written in
\* between, the upload of a file of valid rows that ran to its result
Reuploaded ==
  /\ result.returned
  /\ again
  /\ \A i \in 1..Len(processedRecords) : ErrorsOf(i) = <<>>

\* C2: when a file of valid rows is uploaded to completion and then uploaded
\* again for the same broker, the second run adds no document to the store,
\* reports added = 0, and classifies every row "updated".
C2_ReuploadIdempotent ==
  Reuploaded =>
    /\ DOMAIN store = idsBefore
    /\ result.added = 0
    /\ \A i \in 1..Len(processedRecords) : processedRecords[i].status = "updated"

\* the second upload of the file <<"A B", "A-B">>, whose rows share one document
\* id but not one lookup key, reports a row added
C2_Witness ==
  /\ Reuploaded
  /\ input = FileOf(<<RowSpace, RowHyphen>>)
  /\ result.added = 1
  /\ result.updated = 1

\* the records of the call that are no error records, in input order
Eligible == SelectSeq([i \in 1..Len(processedRecords) |-> i],
                      LAMBDA i : processedRecords[i].status # "error")

CeilDiv(n, d) == (n + d - 1) \div d

\* C3: the writes of the N eligible rows are partitioned, in input order, into
\* consecutive batches of exactly 500 operations except possibly the last: there
\* are ceil(N / 500) batches (none when N = 0), no batch is empty or holds more
\* than 500 operations, the k-th eligible row's write is operation
\* ((k - 1) mod 500) + 1 of batch ((k - 1) div 500) + 1, and on return
\* ceil(N / 500) batches were committed.
C3_BatchPartition ==
  Prepared =>
    LET n == Len(Eligible)
    IN  /\ Len(batches) = CeilDiv(n, BATCH_SIZE)
        /\ \A b \in 1..Len(batches) : Len(batches[b]) >= 1 /\ Len(batches[b]) <= BATCH_SIZE
        /\ \A b \in 1..(Len(batches) - 1) : Len(batches[b]) = BATCH_SIZE
        /\ successRecords = Eligible
        /\ \A k \in 1..n :
             LET b == ((k - 1) \div BATCH_SIZE) + 1
                 j == ((k - 1) % BATCH_SIZE) + 1
             IN  /\ j <= Len(batches[b])
                 /\ batches[b][j].doc.instrument = processedRecords[Eligible[k]].data.instrument
        /\ pc = "returned" => completedBatches = CeilDiv(n, BATCH_SIZE)

\* 501 eligible rows among 1001: a full batch and a batch of one, both committed
C3_Witness ==
  /\ pc = "returned"
  /\ Len(processedRecords) = 2 * BATCH_SIZE + 1
  /\ errors = BATCH_SIZE
  /\ Len(batches) = 2
  /\ Len(batches[1]) = BATCH_SIZE
  /\ Len(batches[2]) = 1
  /\ completedBatches = 2

FactorSumErrorsOf(i) ==
  {e \in 1..Len(ErrorsOf(i)) : ErrorsOf(i)[e].errorType = "factorSum"}

\* C5: for a record whose twelve factors are each a number within [0,1] and
\* whose sum exceeds 1, validateTaxQualification returns exactly one error of
\* errorType 'factorSum', with field 'factors' and the sum as its value,
\* whatever fields other than the factors fail; for a record with a factor that
\* fails its own check it returns no factorSum error.
C5_FactorSumError ==
  Parsed =>
    \A i \in 1..Len(processedRecords) :
      LET d == Validated(i)
          sum == SumOfFactors(d, Len(FactorKeys))
      IN  /\ (AllFactorsValid(d) /\ sum > Scale) =>
                /\ Cardinality(FactorSumErrorsOf(i)) = 1
                /\ \A e \in FactorSumErrorsOf(i) :
                     /\ ErrorsOf(i)[e].field = "factors"
                     /\ ErrorsOf(i)[e].value = Num(sum)
                     /\ ErrorsOf(i)[e].row = i + 1
          /\ SomeFactorInvalid(d) => FactorSumErrorsOf(i) = {}

\* a row with factors of 0.1 each (sum 1.2), a blank instrument and a negative
\* amount: three errors, one of them the factorSum error
C5_Witness ==
  /\ Parsed
  /\ AllFactorsValid(Validated(1))
  /\ SumOfFactors(Validated(1), Len(FactorKeys)) = 12
  /\ Len(ErrorsOf(1)) = 3
  /\ Cardinality(FactorSumErrorsOf(1)) = 1

EqualUpToCase(a, b) == a.t = "str" /\ b.t = "str" /\ ToLowerCase(a.s) = ToLowerCase(b.s)

\* document id of the store stands for the record's instrument, market and period
SameUpToCase(i, id) ==
  /\ store[id].brokerId = brokerId
  /\ EqualUpToCase(Validated(i).instrument, store[id].instrument)
  /\ EqualUpToCase(Validated(i).market, store[id].market)
  /\ EqualUpToCase(Validated(i).period, store[id].period)

\* the loop has run and no commit has resolved: the store is the one that was read
LoopDone == pc = "committing" /\ completedBatches = 0 /\ pending = 1..Len(batches)

\* C6: a valid row whose instrument, market and period equal, up to letter
\* case, those of an existing record of the broker is classified "updated",
\* marked as a duplicate, with existingId the id of that record; rows that
\* differ in case only therefore resolve to the same existing record.
C6_CaseInsensitiveMatch ==
  LoopDone =>
    \A i \in 1..Len(processedRecords) : \A id \in DOMAIN store :
      (ErrorsOf(i) = <<>> /\ SameUpToCase(i, id)) =>
        /\ processedRecords[i].status = "updated"
        /\ processedRecords[i].isDuplicate
        /\ processedRecords[i].existingId = id

\* two rows of one file, spelled differently from each other, one of them
\* spelled differently from the existing record, both resolved to that record
C6_Witness ==
  /\ LoopDone
  /\ \E id \in DOMAIN store : \E i, j \in 1..Len(processedRecords) :
       /\ SameUpToCase(i, id) /\ SameUpToCase(j, id)
       /\ Validated(i).instrument # store[id].instrument
       /\ Validated(i).instrument # Validated(j).instrument
       /\ processedRecords[i].existingId = id
       /\ processedRecords[j].existingId = id

\* the example: AAPL, AAPL again with another amount, MSFT with f8 = 1.5,
\* uploaded for a broker who has no record, and the result returned
ExampleUpload ==
  /\ result.returned
  /\ input = FileOf(<<BaseRow, RowAmount200, RowBadFactor>>)
  /\ idsBefore = {}

\* C7 as stated: the example yields added = 1, updated = 0, errors = 1.
C7_ExampleAsStated ==
  ExampleUpload => result.added = 1 /\ result.updated = 0 /\ result.errors = 1

\* C7, amended: the example yields added = 2, updated = 0, errors = 1 (the
\* second row is compared with the records read before the upload, so it is
\* added too); both writes go to one document, which keeps the second amount.
C7_ExampleResult ==
  ExampleUpload =>
    /\ result.added = 2 /\ result.updated = 0 /\ result.errors = 1
    /\ Cardinality(DOMAIN store) = 1
    /\ \A id \in DOMAIN store : store[id].amount = Num(200 * Scale)

C7_Witness ==
  /\ ExampleUpload
  /\ result.totalRecords = 3
  /\ result.added = 2
  /\ processedRecords[3].status = "error"

NegativeAmount(d) == d.amount.t = "num" /\ d.amount.n < 0

\* C8: for an otherwise valid row whose amount is negative,
\* validateTaxQualification returns exactly one error, with field 'amount' and
\* the message that the amount cannot be negative, and the row is excluded from
\* the writes of processBulkUpload.
C8_NegativeAmountRejected ==
  Parsed =>
    \A i \in 1..Len(processedRecords) :
      (OtherwiseValid(Validated(i)) /\ NegativeAmount(Validated(i))) =>
        /\ Len(ErrorsOf(i)) = 1
        /\ ErrorsOf(i)[1].field = "amount"
        /\ ErrorsOf(i)[1].message = <<"El monto no puede ser negativo">>
        /\ ErrorsOf(i)[1].value = Validated(i).amount
        /\ ErrorsOf(i)[1].row = i + 1
        /\ ExcludedFromWrites(i)

\* a file whose first row has monto = -5 and nothing else wrong: the upload
\* returned, the other row written, this one an error
C8_Witness ==
  /\ pc = "returned"
  /\ input.kind = "rows"
  /\ FileRows(input)[1].monto = Str(<<"-","5">>)
  /\ OtherwiseValid(Validated(1))
  /\ Validated(1).amount = Num(0 - 5 * Scale)
  /\ result.errors = 1
  /\ result.added = 1
  /\ Cardinality(DOMAIN store) = 1

\* C9: every record written by the bulk upload has a period of the form YYYY,
\* YYYY-MM (MM in 01..12) or YYYY-Qn (n in 1..4); a row with a period such as
\* "2024-13" is not written.
C9_WrittenPeriodsWellFormed ==
  \A id \in DOMAIN store :
    store[id].period.t = "str" /\ ValidatePeriodFormat(store[id].period.s)

\* the row with period "2024-13" was accepted and its document is in the store
C9_Witness ==
  /\ pc = "returned"
  /\ processedRecords[1].status = "success"
  /\ \E id \in DOMAIN store : store[id].period = Str(<<"2","0","2","4","-","1","3">>)

\* a cell that is missing or holds a string parseFloat cannot read
UnparseableCell(c) ==
  \/ c.t = "undef"
  \/ c.t = "str" /\ ParseFloat(ReplaceFirstComma(c.s)) = NaN

\* C10: in the file pipeline a row whose factor cell or monto cell is missing
\* or is an unparseable string ends as a ProcessedRecord with status 'error';
\* the field is not stored as 0.
C10_UnparseableNumberRejected ==
  (Parsed /\ input.kind = "rows") =>
    \A i \in 1..Len(processedRecords) :
      (\E k \in FactorKeySet \cup {"monto"} : UnparseableCell(FileRows(input)[i][k])) =>
        processedRecords[i].status = "error"

\* the row with f8 = "abc" was accepted and its document has f8 = 0
C10_Witness ==
  /\ pc = "returned"
  /\ input.kind = "rows"
  /\ FileRows(input)[1].f8 = Str(<<"a","b","c">>)
  /\ processedRecords[1].status = "success"
  /\ \E id \in DOMAIN store :
       /\ store[id].instrument = Validated(1).instrument
       /\ store[id].factors.f8 = Num(0)

\* the set() operation prepared for the k-th success record
OperationOf(k) == batches[((k - 1) \div BATCH_SIZE) + 1][((k - 1) % BATCH_SIZE) + 1]

\* the existing records of the broker that have the key of record i
ExistingFor(i) ==
  {id \in DOMAIN store :
     store[id].brokerId = brokerId /\ LookupKey(store[id]) = LookupKey(Validated(i))}

\* C11: for every non-error row, if its key is found among the existing
\* records, the document written has the existing record's id and createdAt,
\* a new updatedAt, and the row has status 'updated', isDuplicate true and
\* existingId set; if the key is not found, the document written has the id
\* derived by generateQualificationId, createdAt and updatedAt both new, and the
\* row keeps status 'success'.
C11_UpdateKeepsIdAndCreation ==
  LoopDone =>
    /\ Range(successRecords) = {i \in 1..Len(processedRecords) : ErrorsOf(i) = <<>>}
    /\ \A k \in 1..Len(successRecords) :
         LET i == successRecords[k]
             r == processedRecords[i]
             op == OperationOf(k)
         IN  /\ op.doc.id = op.id
             /\ op.doc.instrument = Validated(i).instrument
             /\ op.doc.amount = Validated(i).amount
             /\ op.doc.updatedAt = clock
             /\ IF ExistingFor(i) # {}
                  THEN \E id \in ExistingFor(i) :
                         /\ op.id = id
                         /\ op.doc.createdAt = store[id].createdAt
                         /\ r.status = "updated" /\ r.isDuplicate /\ r.existingId = id
                  ELSE /\ op.id = GenerateQualificationId(Validated(i))
                       /\ op.doc.createdAt = clock
                       /\ r.status = "success" /\ ~r.isDuplicate

\* a second upload with a row found (created at 1, updated at 2) and a row not
\* found (created and updated at 2)
C11_Witness ==
  /\ LoopDone
  /\ clock = 2
  /\ \E k, h \in 1..Len(successRecords) :
       /\ ExistingFor(successRecords[k]) # {}
       /\ OperationOf(k).doc.createdAt = 1
       /\ OperationOf(k).doc.updatedAt = 2
       /\ processedRecords[successRecords[k]].status = "updated"
       /\ ExistingFor(successRecords[h]) = {}
       /\ OperationOf(h).doc.createdAt = 2
       /\ processedRecords[successRecords[h]].status = "success"

\* a commit of the current call has been issued
CommitIssued == pending # {} \/ completedBatches > 0

\* C12: a run of processBulkUpload issues exactly one read of the broker's
\* existing records; while it is in flight no batch has been prepared and no
\* commit issued; from its completion to the end of the run, however it ends
\* and whatever the number of records, the number of reads stays one.
C12_SingleReadBeforeCommits ==
  /\ pc \in {"idle", "parsed"} => reads = 0 /\ ~CommitIssued
  /\ pc = "reading" => reads = 1 /\ ~CommitIssued /\ batches = <<>>
  /\ pc \in {"committing", "returned", "rejected"} => reads = 1
  /\ CommitIssued => reads = 1 /\ pc \in {"committing", "returned", "rejected"}

\* a second upload, of three records, returned after its commit: one read
C12_Witness ==
  /\ pc = "returned"
  /\ clock = 2
  /\ Len(processedRecords) = 3
  /\ completedBatches = 1
  /\ reads = 1

\* the store after the commits of batches 1..k completed in the order of their indexes
RECURSIVE CommittedInOrder(_, _)
CommittedInOrder(st, k) ==
  IF k = 0 THEN st ELSE ApplyBatch(CommittedInOrder(st, k - 1), batches[k])

\* C13: the completion order of the batch commits does not matter: after a
\* successful processBulkUpload (here into the empty collection) the store is
\* the one that the commits completing in the order of the batches leave, under
\* every interleaving.
C13_CommitOrderIrrelevant ==
  (pc = "returned" /\ idsBefore = {}) =>
    store = CommittedInOrder(EmptyStore, Len(batches))

\* 501 rows, the last repeating the first with amount 200: the upload returned
\* and the document of the two rows holds the amount of the first, 100
C13_Witness ==
  /\ pc = "returned"
  /\ input = DupOf(BATCH_SIZE + 1)
  /\ result.added = BATCH_SIZE + 1
  /\ batches[1][1].id = batches[2][1].id
  /\ batches[2][1].doc.amount = Num(200 * Scale)
  /\ store[batches[1][1].id].amount = Num(100 * Scale)

\* the batches whose commit succeeded
Committed == (1..Len(batches)) \ (pending \cup failed)

\* the document of operation j of batch b is in the store, as this operation or
\* an operation of a committed batch on the same document wrote it
Written(b, j) ==
  LET op == batches[b][j]
  IN  /\ op.id \in DOMAIN store
      /\ \/ store[op.id] = op.doc
         \/ \E c \in Committed : \E h \in 1..Len(batches[c]) :
              batches[c][h].id = op.id /\ store[op.id] = batches[c][h].doc

\* C14: once a batch commit has rejected, processBulkUpload is rejected and no
\* BulkUploadResult is returned; the writes of every batch whose commit
\* succeeded are in the store, whether or not another commit rejected; a
\* result is returned only when every batch commit has succeeded.
C14_CommitFailureRejectsWithoutRollback ==
  /\ failed # {} => pc = "rejected" /\ result = NoResult
  /\ result.returned =>
       /\ pc = "returned"
       /\ failed = {} /\ pending = {}
       /\ Committed = 1..Len(batches)
       /\ completedBatches = Len(batches)
  /\ \A b \in Committed : \A j \in 1..Len(batches[b]) : Written(b, j)

\* the commit of batch 1 rejected, the commit of batch 2 succeeded afterwards:
\* the upload is rejected and the documents of batch 2 are in the store
C14_Witness ==
  /\ pc = "rejected"
  /\ Len(batches) = 2
  /\ failed = {1}
  /\ Committed = {2}
  /\ completedBatches = 1
  /\ Cardinality(DOMAIN store) = Len(batches[2])
  /\ result = NoResult

\* the onProgress calls made after a batch commit
CommitCalls == SelectSeq(progressCalls, LAMBDA c : c.batch > 0)

\* C15: in the commit phase onProgress is called exactly once after each batch
\* commit that completes, with (total, total, label), the label carrying the
\* count of completed batches, which takes the values 1, 2, ..., B in completion
\* order whatever the interleaving; over the whole run the processed-so-far
\* argument never decreases and never exceeds total.
C15_ProgressPerCommit ==
  LET total == Len(processedRecords)
  IN  /\ Len(CommitCalls) = Cardinality(Committed)
      /\ Len(CommitCalls) = completedBatches
      /\ \A k \in 1..Len(CommitCalls) :
           CommitCalls[k] = Progress(total, total, "Guardando batch", k)
      /\ pc = "returned" => Len(CommitCalls) = Len(batches)
      /\ \A k \in 1..Len(progressCalls) :
           /\ progressCalls[k].total = total
           /\ 0 <= progressCalls[k].current /\ progressCalls[k].current <= total
           /\ k < Len(progressCalls) => progressCalls[k].current <= progressCalls[k + 1].current

\* 1000 rows in two batches, the upload returned: calls during the loop at 500
\* and at 1000, then one call per commit, labelled 1 and 2
C15_Witness ==
  /\ pc = "returned"
  /\ Len(processedRecords) = 2 * BATCH_SIZE
  /\ Len(batches) = 2
  /\ Len(CommitCalls) = 2
  /\ progressCalls[Len(progressCalls)].batch = 2
  /\ \E k \in 1..Len(progressCalls) :
       progressCalls[k] = Progress(BATCH_SIZE, 2 * BATCH_SIZE, "Procesando registros...", 0)

\* what the claim calls the upload state of the screen
UploadState ==
  << ui.currentStep, ui.selectedFile, ui.processedRecords, ui.filePreview, ui.uploadResult >>

\* at most one processBulkUpload of the screen is in flight
NoSecondUpload == Len(uploading) <= 1

\* C16: from the moment handleConfirmUpload sets isUploading until the upload
\* settles, nothing the user does changes the upload state (currentStep,
\* selectedFile, processedRecords, filePreview, uploadResult) and no second
\* upload is started.
C16_NoAbortWhileUploading ==
  [][ (ui.isUploading /\ ui'.isUploading) =>
        (UploadState' = UploadState /\ Len(uploading') <= 1) ]_vars

\* the preview was closed while the upload was in flight: the screen is back on
\* the first step with nothing selected, and the upload goes on
C16_Witness ==
  /\ ui.isUploading /\ Len(uploading) = 1
  /\ ui.currentStep = "select"
  /\ ui.processedRecords = <<>> /\ ~ui.filePreview.present

\* a file that is wrong as a whole: it cannot be read, its content is damaged,
\* its extension is none of csv, xlsx, xls, or it is a workbook with an empty sheet
Defective(f) ==
  \/ ~f.readable
  \/ f.malformed
  \/ f.ext \notin {"csv", "xlsx", "xls"}
  \/ f.ext \in {"xlsx", "xls"} /\ ~f.header

\* C17: when processFile settles for a file that is wrong as a whole, it has
\* rejected with one message and no records: the screen stays on its step with
\* the message as error, and processedRecords and the preview are not replaced.
C17_ParseFailureRejectsWhole ==
  [][ \A f \in parsing \ parsing' :
        Defective(f) =>
          /\ ui'.error # <<>>
          /\ ui'.currentStep = ui.currentStep
          /\ ui'.processedRecords = ui.processedRecords
          /\ ui'.filePreview = ui.filePreview ]_vars

\* the preview shows the rows of a CSV file with a damaged line
C17_Witness ==
  /\ ui.filePreview.present
  /\ FileNamed(ui.filePreview.fileName).malformed
  /\ ui.currentStep = "preview"
  /\ Len(ui.processedRecords) = 2

\* the line numbers of the data lines of a file, the header being line 1
DataLineNumbers(f) ==
  SelectSeq([i \in 1..Len(f.lines) |-> i + 1], LAMBDA n : ~f.lines[n - 1].blank)

\* C18: the records of a parsed file are one per data line, in the order of the
\* file, and the rowNumber of each record and the row of each of its errors is
\* the line number of its line in the file, the header being line 1; for CSV
\* and for Excel files, blank lines or not.
C18_RowNumbersMatchLines ==
  ui.filePreview.present =>
    LET numbers == DataLineNumbers(FileNamed(ui.filePreview.fileName))
    IN  /\ Len(ui.processedRecords) = Len(numbers)
        /\ \A k \in 1..Len(ui.processedRecords) :
             /\ k <= Len(numbers) => ui.processedRecords[k].rowNumber = numbers[k]
             /\ \A e \in 1..Len(ui.processedRecords[k].errors) :
                  ui.processedRecords[k].errors[e].row = ui.processedRecords[k].rowNumber

\* the CSV file with an empty third line is previewed: the record of its fourth
\* line carries the number 3
C18_Witness ==
  /\ ui.filePreview.present
  /\ ui.filePreview.fileName = "g.csv"
  /\ Len(ui.processedRecords) = 2
  /\ ui.processedRecords[2].rowNumber = 3
  /\ ui.processedRecords[2].status = "error"

\* the audit logs that exist stay as they are: logs are only added
AuditLogsAppendOnly ==
  [][ /\ Len(auditLogs') >= Len(auditLogs)
      /\ SubSeq(auditLogs', 1, Len(auditLogs)) = auditLogs ]_vars

HasLog(action, resource) ==
  \E i \in 1..Len(auditLogs) :
    auditLogs[i].action = action /\ auditLogs[i].resource = resource

\* C19: once a bulk upload of the screen has completed there is an audit log of
\* it, and every user that was created has an audit log of the creation.
C19_MutationsAudited ==
  /\ ui.uploadResult.returned => HasLog("UPLOAD", "qualification")
  /\ \A u \in DOMAIN users :
       \E i \in 1..Len(auditLogs) :
         /\ auditLogs[i].action = "CREATE" /\ auditLogs[i].resource = "user"
         /\ auditLogs[i].resourceId = u

\* an upload that wrote to the collection has completed and a user was
\* created, and the only audit log is one of an update
C19_Witness ==
  /\ ui.uploadResult.returned /\ ui.uploadResult.added > 0
  /\ store # EmptyStore
  /\ users # <<>>
  /\ Len(auditLogs) = 1 /\ auditLogs[1].action = "UPDATE"

\* C20: a failure of the document store inside an operation of the
\* qualification service reaches the caller as an error thrown; only
\* logAuditEvent turns its failure into a return, of the empty string.
C20_FailuresReachCaller ==
  lastCall.failed =>
    IF lastCall.op = "logAuditEvent"
      THEN ~lastCall.outcome.threw /\ lastCall.outcome.id = <<>>
      ELSE lastCall.outcome.threw

\* getQualificationsByBrokerId failed on a collection that holds documents of
\* the broker, and returned the empty list
C20_Witness ==
  /\ lastCall.op = "getQualificationsByBrokerId" /\ lastCall.failed
  /\ ~lastCall.outcome.threw /\ lastCall.outcome.docs = <<>>
  /\ \E id \in DOMAIN store : store[id].brokerId \in Brokers

\* C21: the role of a profile never changes once the profile exists, and a
\* profile with a role comes into the users collection only through the
\* create-user endpoint, which records the administrator who called it.
C21_RoleSetOnlyByEndpoint ==
  [][ /\ \A u \in DOMAIN users :
           u \in DOMAIN users' /\ users'[u].rol = users[u].rol
      /\ \A u \in DOMAIN users' \ DOMAIN users : users'[u].creadoPor # "" ]_vars

\* an administrator has submitted EditUserModal for a user the endpoint
\* created: the edit is in the audit log and the user has a profile
C21_Witness ==
  /\ Len(auditLogs) = 1 /\ auditLogs[1].action = "UPDATE"
  /\ auditLogs[1].resourceId \in DOMAIN users
  /\ users[auditLogs[1].resourceId].creadoPor # ""

\* C22: the create-user endpoint answers 401 to a request without a Bearer
\* token, 403 to a caller without a profile or without the role
\* Administrador, 400 to missing fields or an invalid rol, and with any of
\* these answers it creates no account and writes no profile; an account or a
\* profile is created only for a caller who has the role Administrador.
C22_DenyWithoutPartialWrite ==
  [][ Len(responses') = Len(responses) + 1 =>
        LET r == responses'[Len(responses')]
            req == r.request
            known == req.bearer /\ req.caller \in accounts
            authorized == /\ req.caller \in DOMAIN users
                          /\ users[req.caller].rol = "Administrador"
        IN  /\ ~req.bearer => r.status = 401
            /\ (known /\ ~authorized) => r.status = 403
            /\ (known /\ authorized /\ (~req.complete \/ req.rol \notin Roles))
                 => r.status = 400
            /\ r.status \in {401, 403, 400} => (accounts' = accounts /\ users' = users)
            /\ (accounts' # accounts \/ users' # users) => (known /\ authorized) ]_vars

\* a user with the role Corredor has sent a complete request for an email
\* that has no account: the answer was 403 and the email still has none
C22_Witness ==
  /\ Len(responses) = 1
  /\ responses[1].status = 403
  /\ responses[1].request.complete /\ responses[1].request.rol \in Roles
  /\ responses[1].request.caller \in DOMAIN users
  /\ users[responses[1].request.caller].rol = "Corredor"
  /\ responses[1].request.email \notin accounts

C24_AdministratorDeniedQualifications ==
  /\ \A owner \in Emails, userId \in Emails :
       /\ ~CanViewQualifications("Administrador", owner, userId)
       /\ ~CanEditQualification("Administrador", owner, userId)
       /\ ~CanDeleteQualification("Administrador", owner, userId)
  /\ ~CanCreateQualification("Administrador")
  /\ ~CanBulkUpload("Administrador")
  /\ ~CanGenerateReports("Administrador")
  /\ "taxQualifications" \notin fetched

\* an administrator is on the dashboard, which has read the qualifications
C24_Witness ==
  /\ AdminDashboardShown
  /\ auth.userProfile.rol = "Administrador"
  /\ "taxQualifications" \in fetched

\* the documents a step writes: those that are new and those that changed
WrittenIds == {id \in DOMAIN store' : id \notin DOMAIN store \/ store'[id] # store[id]}

\* C25: every document a call processBulkUpload(records, brokerId) writes has
\* the brokerId of the call in its brokerId field, and the call creates or
\* overwrites no document that belongs to another broker.
C25_TenantSegregation ==
  [][ (lastCall'.op = "processBulkUpload" /\ clock' # clock) =>
        \A id \in WrittenIds :
          /\ store'[id].brokerId = brokerId'
          /\ id \in DOMAIN store => store[id].brokerId = brokerId' ]_vars

\* a call for one broker has left a document whose id begins with the uid of
\* another broker
C25_Witness ==
  /\ lastCall.op = "processBulkUpload" /\ ~lastCall.failed
  /\ \E id \in DOMAIN store :
       /\ store[id].brokerId = brokerId
       /\ SubSeq(id, 1, 2) # ToLowerCase(brokerId)

\* C26: a document that deleteQualification has flagged as deleted is still
\* in the collection, with the flag set, after any bulk upload, and no step
\* makes the collection smaller.
C26_SoftDeletionPreserved ==
  [][ /\ DOMAIN store \subseteq DOMAIN store'
      /\ (lastCall'.op = "processBulkUpload" /\ clock' # clock) =>
           \A id \in DOMAIN store : store[id].deleted => store'[id].deleted ]_vars

\* a bulk upload has completed on a collection that holds a document flagged
\* as deleted
C26_Witness ==
  /\ lastCall.op = "processBulkUpload" /\ ~lastCall.failed
  /\ lastCall.outcome.result.added = 1
  /\ \E id \in DOMAIN store : store[id].deleted

\* C27: records whose instrument, market and period differ, letter case
\* apart, never have the same lookup key, so a row is classified "updated"
\* only against an existing record of the broker with its own instrument,
\* market and period.
C27_LookupKeyInjective ==
  LoopDone =>
    \A i \in 1..Len(processedRecords) :
      /\ processedRecords[i].status = "updated" =>
           /\ processedRecords[i].existingId \in DOMAIN store
           /\ SameUpToCase(i, processedRecords[i].existingId)
      /\ \A id \in DOMAIN store :
           (ErrorsOf(i) = <<>> /\ LookupKey(store[id]) = LookupKey(Validated(i))
              /\ store[id].brokerId = brokerId) => SameUpToCase(i, id)

\* a row was classified "updated" against the record that has its own
\* instrument and market, both with a hyphen in the key
C27_Witness ==
  /\ LoopDone
  /\ \E i \in 1..Len(processedRecords) :
       /\ processedRecords[i].status = "updated"
       /\ Validated(i).market = Str(<<"B","-","N","Y","S","E">>)
       /\ SameUpToCase(i, processedRecords[i].existingId)

\* the positions in successRecords of the rows classified as new
AddedOperations ==
  {k \in 1..Len(successRecords) : processedRecords[successRecords[k]].status = "success"}

\* C28: a row counted in added is written to a document id that no document
\* had before the upload and that no other added row of the upload is written
\* to, so that a successful upload into a store of E documents leaves
\* E + added documents.
C28_AddedRowsGetFreshIds ==
  /\ LoopDone =>
       \A k \in AddedOperations :
         /\ OperationOf(k).id \notin DOMAIN store
         /\ \A h \in AddedOperations : h # k => OperationOf(h).id # OperationOf(k).id
  /\ pc = "returned" =>
       Cardinality(DOMAIN store) = Cardinality(idsBefore) + result.added

\* an upload with an added row has returned on a store that held a document
C28_Witness ==
  /\ pc = "returned"
  /\ result.added >= 1
  /\ idsBefore # {}
  /\ idsBefore \subseteq DOMAIN store

\* the promise of processBulkUpload has resolved or rejected
PromiseSettled == pc \in {"returned", "rejected"}

\* C29: once processBulkUpload has resolved or rejected, and until the next
\* upload starts, the progress callback is invoked no more and the store is
\* written no more, so that the progress state handleConfirmUpload resets in
\* its finally block stays reset, also when one commit fails while others are
\* in flight.
C29_QuietAfterSettling ==
  [][ (PromiseSettled /\ pc' = pc) =>
        /\ progressCalls' = progressCalls
        /\ store' = store ]_vars

\* the upload was rejected by the failed commit of one batch while the commit
\* of another batch was in flight
C29_Witness ==
  /\ pc = "rejected"
  /\ failed # {}
  /\ pending # {}

\* C30: whenever UploadSection shows the preview, filePreview and
\* processedRecords are those processFile computed from the file held in
\* selectedFile, under every interleaving of selections, drops, resets and
\* completions of processFile.
C30_PreviewOfSelectedFile ==
  ui.currentStep = "preview" =>
    \E c \in UserCalls :
      /\ c.file = ui.selectedFile /\ c.brokerId = brokerId /\ c.out.ok
      /\ ui.processedRecords = c.out.records
      /\ ui.filePreview = PreviewOf(ui.selectedFile, c.out.records)

\* the preview of the selected file is shown while processFile is still at
\* work on a file chosen earlier
C30_Witness ==
  /\ ui.currentStep = "preview"
  /\ ui.filePreview.fileName = ui.selectedFile.name
  /\ parsing # {}
  /\ ui.selectedFile \notin parsing
====
